---- MODULE Spec2Model ----
(***************************************************************************)
(* Model of the props dashboard (src/app/page.tsx): the Snapshot Store     *)
(* (propsRef), the change-feed handler, the bulk fetch, the source toggles *)
(* and the merge pass that folds the props array into merged rows.         *)
(*                                                                         *)
(* Strings on which the code computes (names, stat types, keys) are        *)
(* sequences of one-character strings.  updated_at is an ISO 8601 string   *)
(* that the code compares with the string operators > and <; a timestamp   *)
(* is modelled by its rank in that (total, lexicographic) order.           *)
(***************************************************************************)
EXTENDS Integers, Sequences, FiniteSets, TLC

VARIABLES props, propsRef, sourcesEnabled, flashKeys, timers,
          loading, lastUpdate, fetchState, early,
          mounted, channel, realtimeStatus,
          sport, statFilter, search, sortField, sortAsc, memoMerged,
          selectedProp, historyBySource, modalLoading, inflight, runs,
          admin, lib, chart

\* the Dashboard's data state and the pending work of its effects
dataVars == <<props, propsRef, sourcesEnabled, flashKeys, timers,
          loading, lastUpdate, fetchState, early>>

\* the life of the component and of its change-feed channel
lifeVars == <<mounted, channel, realtimeStatus>>

\* the filter and sort settings; memoMerged is the array the merged useMemo
\* holds, in the order in which the view's in-place sort has left it
viewVars == <<sport, statFilter, search, sortField, sortAsc, memoMerged>>

\* the detail view (LineHistoryModal) and its history fetches
modalVars == <<selectedProp, historyBySource, modalLoading, inflight, runs>>

\* the mapping administration screen (AdminPage), a record: the two mapping
\* tables of the store (ud_sport_mappings, ud_stat_mappings), the page's
\* state (sportMappings, statMappings, adminLoading for loading, newCanonical,
\* selectedUnmapped, newStatCanonical, selectedUnmappedStats), the store
\* calls (requests) and loadData runs (loads) in flight, the alert on display
\* (alerted) and the number of mutations sent
adminVars == <<admin>>

\* the Dashboard page
dashboardVars == <<dataVars, lifeVars, viewVars, modalVars>>

\* the module of the shared client (src/lib/supabase.ts)
libVars == <<lib>>

\* the chart of the detail view: the sources of the row, the histories
\* fetched and the points drawn from them
chartVars == <<chart>>

\* what a handler of the Dashboard page leaves alone
offDashboard == <<adminVars, libVars, chartVars>>

\* what a handler of the mapping screen leaves alone
offAdmin == <<dashboardVars, libVars, chartVars>>

vars == <<dashboardVars, adminVars, libVars, chartVars>>

(* ---------------------------- bounds ---------------------------------- *)
MaxTime == 2
MaxTimers == 1
MaxEarly == 1
MaxRuns == 3
MaxMutations == 2
MaxNameLen == 3
MaxPending == 2
MaxCalls == 3
MaxHist == 2

(* ------------------------- string helpers ----------------------------- *)
UpperChars == <<"A","B","C","D","E","F","G","H","I","J","K","L","M",
                "N","O","P","Q","R","S","T","U","V","W","X","Y","Z">>
LowerChars == <<"a","b","c","d","e","f","g","h","i","j","k","l","m",
                "n","o","p","q","r","s","t","u","v","w","x","y","z">>

WhiteSpace == {" ", "\t"}

toLowerCase(s) ==
  [i \in DOMAIN s |->
     IF \E k \in DOMAIN UpperChars : UpperChars[k] = s[i]
       THEN LowerChars[CHOOSE k \in DOMAIN UpperChars : UpperChars[k] = s[i]]
       ELSE s[i]]

RECURSIVE trimStart(_)
trimStart(s) ==
  IF s # <<>> /\ Head(s) \in WhiteSpace THEN trimStart(Tail(s)) ELSE s

RECURSIVE trimEnd(_)
trimEnd(s) ==
  IF s # <<>> /\ s[Len(s)] \in WhiteSpace
    THEN trimEnd(SubSeq(s, 1, Len(s) - 1)) ELSE s

trim(s) == trimEnd(trimStart(s))

\* String.prototype.replace(/[.\-']/g, '')
StripPunct(s) == SelectSeq(s, LAMBDA c : c \notin {".", "-", "'"})

\* String.prototype.replace(/\s+/g, ' ')
RECURSIVE CollapseSpace(_)
CollapseSpace(s) ==
  IF s = <<>> THEN <<>>
  ELSE IF Head(s) \in WhiteSpace
    THEN <<" ">> \o CollapseSpace(trimStart(s))
    ELSE <<Head(s)>> \o CollapseSpace(Tail(s))

MatchAt(s, pat, i) ==
  /\ i + Len(pat) - 1 <= Len(s)
  /\ \A k \in 1..Len(pat) : s[i + k - 1] = pat[k]

IndexOf(s, pat) ==
  IF \E i \in 1..Len(s) : MatchAt(s, pat, i)
    THEN CHOOSE i \in 1..Len(s) :
           /\ MatchAt(s, pat, i)
           /\ \A j \in 1..(i - 1) : ~MatchAt(s, pat, j)
    ELSE 0

\* String.prototype.replace with a literal, non-global pattern: the first
\* occurrence only.
replace(s, pat, rep) ==
  LET i == IndexOf(s, pat)
  IN  IF i = 0 THEN s
      ELSE SubSeq(s, 1, i - 1) \o rep \o SubSeq(s, i + Len(pat), Len(s))

(* --------------------------- normalizer ------------------------------- *)
normName(name) ==
  IF name = <<>> THEN <<>>
  ELSE CollapseSpace(StripPunct(trim(toLowerCase(name))))

S_three_pointers_made ==
  <<"t","h","r","e","e"," ","p","o","i","n","t","e","r","s"," ","m","a","d","e">>
S_3_pointers_made ==
  <<"3","-","p","o","i","n","t","e","r","s"," ","m","a","d","e">>
S_3_pointers == <<"3","-","p","o","i","n","t","e","r","s">>
S_pts_reb_ast ==
  <<"p","t","s"," ","+"," ","r","e","b"," ","+"," ","a","s","t">>
S_pts_rebs_asts ==
  <<"p","t","s"," ","+"," ","r","e","b","s"," ","+"," ","a","s","t","s">>

normStat(stat) ==
  replace(
    replace(
      replace(
        replace(trim(toLowerCase(stat)),
                S_three_pointers_made, S_3_pointers_made),
        S_3_pointers, S_3_pointers),
      S_pts_reb_ast, S_pts_rebs_asts),
    S_pts_rebs_asts, S_pts_rebs_asts)

KeySep == <<"|","|">>

\* mutant: the player name enters the key as it is spelled
makeMergeKey_RawName(p) ==
  p.player_name \o KeySep \o normStat(p.stat_type) \o KeySep \o p.sport_id

makeMergeKey(p) ==
  normName(p.player_name) \o KeySep \o normStat(p.stat_type) \o KeySep \o p.sport_id

(* ------------------------ the record universe ------------------------- *)
\* A Prop (src/unnamed/part_001).  Only the fields page.tsx reads are kept;
\* a null string is the empty sequence (the code tests every nullable string
\* with !x or x || y, which treat null and '' alike), a nullable number is a
\* sequence of length 0 or 1.
Prop(id, source, player_name, stat_type, sport_id, game_display, team_abbr, updated_at, status) ==
  [id |-> id, source |-> source, player_name |-> player_name,
   stat_type |-> stat_type, sport_id |-> sport_id,
   stat_value |-> <<20 + updated_at>>,
   over_price |-> <<"-","1","1","0">>, under_price |-> <<"+","1","5","0">>,
   status |-> status, team_abbr |-> team_abbr,
   game_display |-> game_display, updated_at |-> updated_at]

NBA == <<"N","B","A">>

CBB == <<"C","B","B">>

Times == 1..MaxTime

\* The versions of one record: active with any timestamp, or removed (the
\* handler reads nothing but the id of a removed record).
Versions(id, source, player_name, stat_type, sport_id, game_display, team_abbr) ==
  { Prop(id, source, player_name, stat_type, sport_id, game_display,
         team_abbr, t, "active") : t \in Times }
  \cup
  { Prop(id, source, player_name, stat_type, sport_id, game_display,
         team_abbr, 1, "removed") }

PropsOfA1 ==
  Versions("a1", "underdog",
           <<"L","e","B","r","o","n"," ","J","a","m","e","s">>,
           <<"P","o","i","n","t","s">>, NBA,
           <<"L","A","L"," ","@"," ","B","O","S">>, <<"L","A","L">>)

PropsOfB1 ==
  Versions("b1", "kalshi",
           <<"l","e","b","r","o","n"," ","j","a","m","e","s">>,
           <<"p","o","i","n","t","s">>, NBA, <<>>, <<>>)

\* no source tag: counted as 'underdog'.  Upstream has rewritten the player
\* and the stat of this record, so its merge key is not the same in all
\* versions.
PropsOfC1 ==
  Versions("c1", "",
           <<"L","E","B","R","O","N"," "," ","J","A","M","E","S">>,
           <<" ","P","O","I","N","T","S">>, NBA,
           <<"B","O","S"," ","v","s"," ","L","A","L">>, <<"B","O","S">>)
  \cup
  { Prop("c1", "",
         <<"K","."," ","D","u","r","a","n","t">>,
         <<"T","h","r","e","e"," ","P","o","i","n","t","e","r","s"," ","M","a","d","e">>,
         CBB, <<"P","H","X"," ","@"," ","D","E","N">>, <<"P","H","X">>,
         1, "active") }

AllProps == PropsOfA1 \cup PropsOfB1 \cup PropsOfC1

\* Records whose player name or stat type holds the separator of the merge
\* key, and two records that differ in case only.
KeyProps ==
  { Prop("k1", "underdog", <<"a","|","|","b">>, <<"c">>, NBA, <<>>, <<>>, 1, "active"),
    Prop("k2", "kalshi", <<"a">>, <<"b","|","|","c">>, NBA, <<>>, <<>>, 1, "active"),
    Prop("k3", "prizepicks", <<"a">>, <<"c">>, NBA, <<>>, <<>>, 1, "active"),
    Prop("k4", "draftkings", <<"A">>, <<"C">>, NBA, <<>>, <<>>, 1, "active") }

\* a letter, a blank, a tab and two of the characters that normName strips
NameChars == {"A", " ", "\t", ".", "-"}

\* the versions of one record whose player name is any string of at most
\* MaxNameLen of these characters
NameProps ==
  { Prop("m1", "fanduel", name, <<"c">>, NBA, <<>>, <<>>, 1, "active") :
      name \in UNION { [1..n -> NameChars] : n \in 0..MaxNameLen } }

\* Records that differ in the line and in the over price: a null line, a
\* second source with a line for the same player, a negative line, a line of
\* 0, a positive line; over prices '-110', '+150' and null.
LineProp(id, source, player_name, stat_value, over_price) ==
  [Prop(id, source, player_name, <<"P","o","i","n","t","s">>, NBA, <<>>, <<>>,
        1, "active")
     EXCEPT !.stat_value = stat_value, !.over_price = over_price]

LineProps ==
  { LineProp("n1", "underdog", <<"A","n","n">>, <<>>, <<"-","1","1","0">>),
    LineProp("n2", "kalshi", <<"a","n","n">>, <<2>>, <<"+","1","5","0">>),
    LineProp("n3", "underdog", <<"B","o","b">>, <<-1>>, <<>>),
    LineProp("n4", "underdog", <<"C","y">>, <<0>>, <<"+","1","5","0">>),
    LineProp("n5", "underdog", <<"D","e","e">>, <<1>>, <<"-","1","1","0">>) }

Ids == { p.id : p \in AllProps }

\* makeMergeKey tabulated over the records with long names
mergeKeyOf == [p \in AllProps \cup KeyProps \cup LineProps |-> makeMergeKey(p)]

\* makeMergeKey(p), read from the table where p is tabulated
KeyOf(p) == IF p \in DOMAIN mergeKeyOf THEN mergeKeyOf[p] ELSE makeMergeKey(p)

SOURCES_ORDER == <<"underdog", "kalshi", "prizepicks", "draftkings", "fanduel">>

\* p.source || 'underdog'
Src(p) == IF p.source = "" THEN "underdog" ELSE p.source

\* mutant: a source counts as enabled when its key is present
IsEnabled_KeyPresent(enabled, src) == src \in DOMAIN enabled

\* sourcesEnabled[src] read as a condition: a missing key is falsy
IsEnabled(enabled, src) == src \in DOMAIN enabled /\ enabled[src]

(* ------------------- the Snapshot Store (a JS Map) -------------------- *)
\* A Map<string, Prop> is the sequence of its entries [k, v] in insertion
\* order.
IndexOfKey(m, k) ==
  IF \E i \in DOMAIN m : m[i].k = k
    THEN CHOOSE i \in DOMAIN m : m[i].k = k
    ELSE 0

\* mutant: set never looks for an existing key
MapSet_Append(m, k, v) == Append(m, [k |-> k, v |-> v])

\* Map.prototype.set: an existing key keeps its position
MapSet(m, k, v) ==
  LET i == IndexOfKey(m, k)
  IN  IF i = 0 THEN Append(m, [k |-> k, v |-> v])
      ELSE [m EXCEPT ![i] = [k |-> k, v |-> v]]

\* mutant: the filter keeps the entry it should drop
MapDelete_Inverted(m, k) == SelectSeq(m, LAMBDA e : e.k = k)

\* mutant: removal by position, a missing key removing the last entry
MapDelete_Splice(m, k) ==
  IF \E i \in DOMAIN m : m[i].k = k
    THEN SelectSeq(m, LAMBDA e : e.k # k)
    ELSE SubSeq(m, 1, Len(m) - 1)

\* Map.prototype.delete
MapDelete(m, k) == SelectSeq(m, LAMBDA e : e.k # k)

\* Array.from(map.values())
MapValues(m) == [i \in DOMAIN m |-> m[i].v]

\* mutant: the fetch leaves the store empty
NewMap_NotInstalled(list) == <<>>

\* new Map(list.map(p => [p.id, p]))
RECURSIVE NewMap(_)
NewMap(list) ==
  IF list = <<>> THEN <<>>
  ELSE LET p == list[Len(list)]
       IN  MapSet(NewMap(SubSeq(list, 1, Len(list) - 1)), p.id, p)

(* --------------------------- Merge Engine ----------------------------- *)
\* '—', the placeholder for a missing player name or game
EmDash == <<"EMDASH">>

\* x || y on strings
OrElse(x, y) == IF x = <<>> THEN y ELSE x

\* A MergedRow's sources object is the sequence of its slots in insertion
\* order, each tagged with its property key (the source).
IndexOfSource(sources, src) ==
  IF \E i \in DOMAIN sources : sources[i].source = src
    THEN CHOOSE i \in DOMAIN sources : sources[i].source = src
    ELSE 0

NewSlot(src, p) ==
  [source |-> src, line |-> p.stat_value, over |-> p.over_price,
   under |-> p.under_price, updated_at |-> p.updated_at, prop |-> p]

NewRow(key, p) ==
  [key |-> key, player_name |-> OrElse(p.player_name, EmDash),
   sport_id |-> p.sport_id, stat_type |-> p.stat_type,
   game_display |-> OrElse(p.game_display, EmDash),
   team_abbr |-> p.team_abbr, sources |-> <<>>,
   latestUpdate |-> p.updated_at]

IndexOfRow(map, key) ==
  IF \E i \in DOMAIN map : map[i].key = key
    THEN CHOOSE i \in DOMAIN map : map[i].key = key
    ELSE 0

\* mutant: a record with an equal timestamp takes the slot
SlotReplaced_OnTie(sources, src, p) ==
  LET j == IndexOfSource(sources, src)
  IN  j = 0 \/ p.updated_at >= sources[j].updated_at

\* mutant: the record met last takes the slot
SlotReplaced_Always(sources, src, p) == TRUE

\* if (!row.sources[src] || p.updated_at > row.sources[src].updated_at)
SlotReplaced(sources, src, p) ==
  LET j == IndexOfSource(sources, src)
  IN  j = 0 \/ p.updated_at > sources[j].updated_at

\* mutant: the slots of a row are pushed to a list
FoldSlot_Push(row, src, p) ==
  [row EXCEPT !.sources = Append(@, NewSlot(src, p))]

FoldSlot(row, src, p) ==
  LET j == IndexOfSource(row.sources, src)
  IN  IF ~SlotReplaced(row.sources, src, p) THEN row
      ELSE IF j = 0
        THEN [row EXCEPT !.sources = Append(@, NewSlot(src, p))]
        ELSE [row EXCEPT !.sources[j] = NewSlot(src, p)]

\* mutant: the comparison is turned round
FoldLatest_Older(row, p) ==
  IF p.updated_at < row.latestUpdate
    THEN [row EXCEPT !.latestUpdate = p.updated_at,
                     !.game_display = OrElse(p.game_display, @)]
    ELSE row

\* if (p.updated_at > row.latestUpdate) { ... }
FoldLatest(row, p) ==
  IF p.updated_at > row.latestUpdate
    THEN [row EXCEPT !.latestUpdate = p.updated_at,
                     !.game_display = OrElse(p.game_display, @)]
    ELSE row

\* mutant: the loop does not skip the records of disabled sources
MergeStep_NoFilter(map, p, enabled) ==
  LET src == Src(p)
      key == KeyOf(p)
      i   == IndexOfRow(map, key)
      row == IF i = 0 THEN NewRow(key, p) ELSE map[i]
      new == FoldLatest(FoldSlot(row, src, p), p)
  IN  IF i = 0 THEN Append(map, new)
      ELSE [map EXCEPT ![i] = new]

\* one iteration of the loop over props
MergeStep(map, p, enabled) ==
  LET src == Src(p)
      key == KeyOf(p)
      i   == IndexOfRow(map, key)
      row == IF i = 0 THEN NewRow(key, p) ELSE map[i]
      new == FoldLatest(FoldSlot(row, src, p), p)
  IN  IF ~IsEnabled(enabled, src) THEN map
      ELSE IF i = 0 THEN Append(map, new)
      ELSE [map EXCEPT ![i] = new]

\* the useMemo body: the rows of the map in insertion order
RECURSIVE Merge(_, _)
Merge(list, enabled) ==
  IF list = <<>> THEN <<>>
  ELSE MergeStep(Merge(SubSeq(list, 1, Len(list) - 1), enabled),
                 list[Len(list)], enabled)

merged == Merge(props, sourcesEnabled)

\* the merge output of the next render
mergedNext == Merge(props', sourcesEnabled')

(* ------------------------------ the view ------------------------------ *)
ALL == <<"A","L","L">>

\* the characters of the model in the order of their UTF-16 code units
CodeOrder ==
  <<"\t", " ", "'", "+", "-", ".", "0", "1", "2", "3", "4", "5", "6", "7",
    "8", "9", "@">> \o UpperChars \o LowerChars \o <<"|", "EMDASH">>

CodeUnit(c) == CHOOSE i \in DOMAIN CodeOrder : CodeOrder[i] = c

\* a < b on strings
RECURSIVE StrLess(_, _)
StrLess(a, b) ==
  IF b = <<>> THEN FALSE
  ELSE IF a = <<>> THEN TRUE
  ELSE IF Head(a) = Head(b) THEN StrLess(Tail(a), Tail(b))
  ELSE CodeUnit(Head(a)) < CodeUnit(Head(b))

SortFields == {"player_name", "stat_type", "line", "updated_at"}

\* mutant: a null line is taken to be below every line
FirstLine_NullLowest(row) ==
  IF row.sources = <<>> \/ row.sources[1].line = <<>> THEN -100
  ELSE row.sources[1].line[1]

\* Object.values(a.sources)[0]?.line ?? 0
FirstLine(row) ==
  IF row.sources = <<>> \/ row.sources[1].line = <<>> THEN 0
  ELSE row.sources[1].line[1]

\* aVal < bVal for the values the switch picks
Less(field, a, b) ==
  CASE field = "player_name" -> StrLess(a.player_name, b.player_name)
    [] field = "stat_type"   -> StrLess(a.stat_type, b.stat_type)
    [] field = "line"        -> FirstLine(a) < FirstLine(b)
    [] OTHER                 -> a.latestUpdate < b.latestUpdate

\* the comparator handed to result.sort
compare(a, b, field, asc) ==
  IF Less(field, a, b) THEN (IF asc THEN -1 ELSE 1)
  ELSE IF Less(field, b, a) THEN (IF asc THEN 1 ELSE -1)
  ELSE 0

\* Array.prototype.sort, which is stable: an insertion sort in which an
\* element goes before the first one it compares below
RECURSIVE InsertRow(_, _, _, _)
InsertRow(sorted, x, field, asc) ==
  IF sorted = <<>> THEN <<x>>
  ELSE IF compare(x, Head(sorted), field, asc) < 0 THEN <<x>> \o sorted
  ELSE <<Head(sorted)>> \o InsertRow(Tail(sorted), x, field, asc)

RECURSIVE sort(_, _, _)
sort(rows, field, asc) ==
  IF rows = <<>> THEN <<>>
  ELSE InsertRow(sort(SubSeq(rows, 1, Len(rows) - 1), field, asc),
                 rows[Len(rows)], field, asc)

\* String.prototype.includes
includes(s, q) == \E i \in 1..(Len(s) + 1) : MatchAt(s, q, i)

\* the predicate of the search filter; q is the lower-cased search text
MatchesSearch(r, q) ==
  \/ includes(toLowerCase(r.player_name), q)
  \/ includes(toLowerCase(r.game_display), q)
  \/ includes(toLowerCase(r.team_abbr), q)

BySport(rows, sp) ==
  IF sp # ALL THEN SelectSeq(rows, LAMBDA r : r.sport_id = sp) ELSE rows

ByStat(rows, st) ==
  IF st # ALL THEN SelectSeq(rows, LAMBDA r : r.stat_type = st) ELSE rows

BySearch(rows, text) ==
  IF text # <<>>
    THEN SelectSeq(rows, LAMBDA r : MatchesSearch(r, toLowerCase(text)))
    ELSE rows

\* mutant: the stat step compares with the sport
FilterRows_StatBySport(rows, sp, st, text) ==
  BySearch(ByStat(BySport(rows, sp), sp), text)

\* the three filter steps of the filtered useMemo
FilterRows(rows, sp, st, text) == BySearch(ByStat(BySport(rows, sp), st), text)

\* no filter step ran: result is still the merged array itself
NoFilter(sp, st, text) == sp = ALL /\ st = ALL /\ text = <<>>

\* the value of the filtered useMemo
FilteredOf(rows, sp, st, text, field, asc) ==
  sort(FilterRows(rows, sp, st, text), field, asc)

\* the merged array after the useMemo ran: result.sort sorts in place, and
\* result is the merged array when no filter step made a copy
MemoAfter(rows, sp, st, text, field, asc) ==
  IF NoFilter(sp, st, text) THEN sort(rows, field, asc) ELSE rows

filtered == FilteredOf(memoMerged, sport, statFilter, search, sortField, sortAsc)

\* the sports with a tab: 'ALL' and every sport of a merged row
sportTabs == {ALL} \cup { memoMerged[i].sport_id : i \in DOMAIN memoMerged }

\* the options of the stat select besides 'ALL'
statTypes ==
  IF sport = ALL THEN {}
  ELSE { memoMerged[i].stat_type :
           i \in { j \in DOMAIN memoMerged : memoMerged[j].sport_id = sport } }

(* ------------------------ external inputs ----------------------------- *)
ActiveProps == { p \in AllProps : p.status = "active" }

\* Results of the bulk fetch: rows with status 'active', one per id (id is
\* the table's key), ordered by updated_at descending; the limit of 20000
\* rows is never met.
FetchResults ==
  { list \in UNION { [1..n -> ActiveProps] : n \in 0..Cardinality(Ids) } :
      /\ \A i, j \in DOMAIN list : i # j => list[i].id # list[j].id
      /\ \A i, j \in DOMAIN list :
           i < j => list[i].updated_at >= list[j].updated_at }

\* Change-feed payloads.  payload.new is a sequence holding the new record, or
\* empty ({} on DELETE); payload.old carries the key column only, and is {}
\* (id "") on INSERT.  A record is inserted with its first timestamp; updates
\* carry any timestamp, so that they may arrive out of order.
Payloads ==
  { [eventType |-> "INSERT", new |-> <<p>>, old |-> [id |-> ""]] :
      p \in { q \in AllProps : q.updated_at = 1 } }
  \cup
  { [eventType |-> "UPDATE", new |-> <<p>>, old |-> [id |-> p.id]] : p \in AllProps }
  \cup
  { [eventType |-> "DELETE", new |-> <<>>, old |-> [id |-> i]] : i \in Ids }

(* ------------------- the mapping administration screen ---------------- *)
\* The (source, sport_id) and (source, stat_type, sport_id) combinations the
\* store counts in ud_props.  A key `${source}||${sport_id}` of the page is
\* the tuple of its parts, which key.split('||') gives back; an empty sport_id
\* is stored as a null sport_context, written "" here as well.
SourceSports == { <<"underdog", "NBA">>, <<"kalshi", "KXNBA">> }

SourceStats == { <<"underdog", "Points", "NBA">>, <<"kalshi", "points", "">> }

\* the texts typed into a canonical-name input
CanonicalTexts == { <<" ">>, <<"N","B","A"," ">> }

\* the rows a handler builds from the selected keys
SportRows(canonical, keys) ==
  [i \in DOMAIN keys |->
     [canonical_name |-> canonical, source |-> keys[i][1],
      source_sport_id |-> keys[i][2]]]

StatRows(canonical, keys) ==
  [i \in DOMAIN keys |->
     [canonical_name |-> canonical, source |-> keys[i][1],
      source_stat_type |-> keys[i][2], sport_context |-> keys[i][3]]]

\* the columns named by onConflict: all but the id and the canonical name
ConflictKey(row) == [f \in DOMAIN row \ {"id", "canonical_name"} |-> row[f]]

\* A table is its rows and the next value of its id sequence.
\* upsert(rows, { onConflict }): a row whose conflict columns are in the
\* table overwrites the canonical name there, another one is inserted with
\* the next id.
RECURSIVE Upsert(_, _)
Upsert(table, rows) ==
  IF rows = <<>> THEN table
  ELSE LET t == Upsert(table, SubSeq(rows, 1, Len(rows) - 1))
           r == rows[Len(rows)]
       IN  IF \E x \in t.rows : ConflictKey(x) = ConflictKey(r)
             THEN [t EXCEPT !.rows =
                     { IF ConflictKey(x) = ConflictKey(r)
                         THEN [x EXCEPT !.canonical_name = r.canonical_name]
                         ELSE x : x \in @ }]
             ELSE [rows |-> t.rows \cup
                              { [f \in DOMAIN r \cup {"id"} |->
                                   IF f = "id" THEN t.seq ELSE r[f]] },
                   seq |-> t.seq + 1]

\* delete().eq('id', id)
Delete(table, id) == [table EXCEPT !.rows = { x \in @ : x.id # id }]

\* the page when it mounts, its effect having called loadData, and the
\* tables holding one mapping each
AdminStart ==
  admin =
    [ud_sport_mappings |->
       Upsert([rows |-> {}, seq |-> 1], SportRows(NBA, << <<"underdog", "NBA">> >>)),
     ud_stat_mappings |->
       Upsert([rows |-> {}, seq |-> 1],
              StatRows(<<"P","o","i","n","t","s">>, << <<"underdog", "Points", "NBA">> >>)),
     sportMappings |-> {},
     statMappings |-> {},
     adminLoading |-> TRUE,
     newCanonical |-> <<>>,
     selectedUnmapped |-> <<>>,
     newStatCanonical |-> <<>>,
     selectedUnmappedStats |-> <<>>,
     requests |-> {},
     loads |-> 1,
     alerted |-> FALSE,
     sent |-> 0]

\* loadData(): setLoading(true) and the queries it sends, on the page a
loadData(a) == [a EXCEPT !.adminLoading = TRUE, !.loads = @ + 1]

\* loadData resumes with the answers of the store; a select that failed has
\* no data and the list becomes []
LoadDone(sportError, statError) ==
  /\ admin.loads > 0
  /\ ~admin.alerted
  /\ admin' = [admin EXCEPT
       !.loads = @ - 1,
       !.sportMappings = IF sportError THEN {} ELSE admin.ud_sport_mappings.rows,
       !.statMappings = IF statError THEN {} ELSE admin.ud_stat_mappings.rows,
       !.adminLoading = FALSE]
  /\ UNCHANGED offAdmin

\* the lists are rendered once loading is over, and an alert blocks the page
AdminClickable == ~admin.adminLoading /\ ~admin.alerted

unmappedSports ==
  { k \in SourceSports :
      \A m \in admin.sportMappings : <<m.source, m.source_sport_id>> # k }

unmappedStats ==
  { k \in SourceStats :
      \A m \in admin.statMappings :
        <<m.source, m.source_stat_type, m.sport_context>> # k }

\* a Set in insertion order: next.has(key) ? next.delete(key) : next.add(key)
ToggleKey(prev, key) ==
  IF \E i \in DOMAIN prev : prev[i] = key
    THEN SelectSeq(prev, LAMBDA k : k # key)
    ELSE Append(prev, key)

toggleUnmapped(key) ==
  /\ AdminClickable
  /\ key \in unmappedSports
  /\ admin' = [admin EXCEPT !.selectedUnmapped = ToggleKey(@, key)]
  /\ UNCHANGED offAdmin

toggleUnmappedStat(key) ==
  /\ AdminClickable
  /\ key \in unmappedStats
  /\ admin' = [admin EXCEPT !.selectedUnmappedStats = ToggleKey(@, key)]
  /\ UNCHANGED offAdmin

\* the inputs are rendered while keys are selected
setNewCanonical(text) ==
  /\ AdminClickable
  /\ unmappedSports # {} /\ admin.selectedUnmapped # <<>>
  /\ admin' = [admin EXCEPT !.newCanonical = text]
  /\ UNCHANGED offAdmin

setNewStatCanonical(text) ==
  /\ AdminClickable
  /\ unmappedStats # {} /\ admin.selectedUnmappedStats # <<>>
  /\ admin' = [admin EXCEPT !.newStatCanonical = text]
  /\ UNCHANGED offAdmin

\* a handler up to its await: the call is sent to the store; at most
\* MaxMutations calls are followed
Send(op, rows, id) ==
  /\ admin.sent < MaxMutations
  /\ admin' = [admin EXCEPT
       !.sent = @ + 1,
       !.requests = @ \cup {[n |-> admin.sent + 1, op |-> op, rows |-> rows, id |-> id]}]
  /\ UNCHANGED offAdmin

createSportMapping ==
  /\ AdminClickable
  /\ unmappedSports # {} /\ admin.selectedUnmapped # <<>>
  /\ trim(admin.newCanonical) # <<>>
  /\ Send("createSportMapping",
          SportRows(trim(admin.newCanonical), admin.selectedUnmapped), 0)

addToExistingGroup(canonicalName) ==
  /\ AdminClickable
  /\ canonicalName \in { m.canonical_name : m \in admin.sportMappings }
  /\ admin.selectedUnmapped # <<>>
  /\ Send("addToExistingGroup", SportRows(canonicalName, admin.selectedUnmapped), 0)

deleteSportMapping(id) ==
  /\ AdminClickable
  /\ id \in { m.id : m \in admin.sportMappings }
  /\ Send("deleteSportMapping", <<>>, id)

createStatMapping ==
  /\ AdminClickable
  /\ unmappedStats # {} /\ admin.selectedUnmappedStats # <<>>
  /\ trim(admin.newStatCanonical) # <<>>
  /\ Send("createStatMapping",
          StatRows(trim(admin.newStatCanonical), admin.selectedUnmappedStats), 0)

addStatToExistingGroup(canonicalName) ==
  /\ AdminClickable
  /\ canonicalName \in { m.canonical_name : m \in admin.statMappings }
  /\ admin.selectedUnmappedStats # <<>>
  /\ Send("addStatToExistingGroup",
          StatRows(canonicalName, admin.selectedUnmappedStats), 0)

deleteStatMapping(id) ==
  /\ AdminClickable
  /\ id \in { m.id : m \in admin.statMappings }
  /\ Send("deleteStatMapping", <<>>, id)

SportOps == {"createSportMapping", "addToExistingGroup", "deleteSportMapping"}

DeleteOps == {"deleteSportMapping", "deleteStatMapping"}

\* the store's answer to call r: on an error the table is as it was
Answered(table, r, error) ==
  IF error THEN table
  ELSE IF r.op \in DeleteOps THEN Delete(table, r.id)
  ELSE Upsert(table, r.rows)

\* A handler resumes after its await.  The upserting handlers alert and
\* return on an error and otherwise clear their form and call loadData; the
\* deleting handlers do not read the answer and call loadData.
Returned(r, error) ==
  /\ r \in admin.requests
  /\ ~admin.alerted
  /\ LET answered ==
           [admin EXCEPT
              !.requests = @ \ {r},
              !.ud_sport_mappings =
                 IF r.op \in SportOps THEN Answered(@, r, error) ELSE @,
              !.ud_stat_mappings =
                 IF r.op \in SportOps THEN @ ELSE Answered(@, r, error)]
     IN  admin' =
           IF error /\ r.op \notin DeleteOps
             THEN [answered EXCEPT !.alerted = TRUE]
             ELSE loadData(
                    [answered EXCEPT
                       !.newCanonical =
                          IF r.op = "createSportMapping" THEN <<>> ELSE @,
                       !.selectedUnmapped =
                          IF r.op \in {"createSportMapping", "addToExistingGroup"}
                            THEN <<>> ELSE @,
                       !.newStatCanonical =
                          IF r.op = "createStatMapping" THEN <<>> ELSE @,
                       !.selectedUnmappedStats =
                          IF r.op \in {"createStatMapping", "addStatToExistingGroup"}
                            THEN <<>> ELSE @])
  /\ UNCHANGED offAdmin

\* the user closes the alert
DismissAlert ==
  /\ admin.alerted
  /\ admin' = [admin EXCEPT !.alerted = FALSE]
  /\ UNCHANGED offAdmin

(* ---------------- the shared client (src/lib/supabase.ts) ------------- *)
\* the value of an environment variable that is not set
Undefined == <<"UNDEFINED">>

\* the values of NEXT_PUBLIC_SUPABASE_URL and NEXT_PUBLIC_SUPABASE_ANON_KEY:
\* not set, empty, blank, set
EnvValues == { Undefined, <<>>, <<" ", "\t">>, <<" ", "h", " ">> }

\* process.env.X?.trim()
OptTrim(v) == IF v = Undefined THEN Undefined ELSE trim(v)

\* !v for a string or undefined
Falsy(v) == v = Undefined \/ v = <<>>

\* The module before its first call.  _supabase is 0 for null and else the
\* number of the createClient call whose client it holds; created counts the
\* calls of createClient and calls those of getSupabase; threw and returned
\* are the outcome of the last call (returned 0: nothing returned).
LibStart ==
  lib = [_supabase |-> 0, url |-> Undefined, key |-> Undefined,
         created |-> 0, calls |-> 0, threw |-> FALSE, returned |-> 0]

\* mutant: the client constructed is returned and not kept
getSupabase_NotCached(l) ==
  IF l._supabase # 0
    THEN [l EXCEPT !.calls = @ + 1, !.threw = FALSE, !.returned = l._supabase]
  ELSE IF Falsy(OptTrim(l.url)) \/ Falsy(OptTrim(l.key))
    THEN [l EXCEPT !.calls = @ + 1, !.threw = TRUE, !.returned = 0]
  ELSE [l EXCEPT !.calls = @ + 1, !.threw = FALSE,
                 !.created = @ + 1, !.returned = l.created + 1]

\* getSupabase() on the module state l
getSupabase(l) ==
  IF l._supabase # 0
    THEN [l EXCEPT !.calls = @ + 1, !.threw = FALSE, !.returned = l._supabase]
  ELSE IF Falsy(OptTrim(l.url)) \/ Falsy(OptTrim(l.key))
    THEN [l EXCEPT !.calls = @ + 1, !.threw = TRUE, !.returned = 0]
  ELSE [l EXCEPT !.calls = @ + 1, !.threw = FALSE,
                 !.created = @ + 1, !._supabase = l.created + 1,
                 !.returned = l.created + 1]

\* a caller calls getSupabase; at most MaxCalls calls are followed
CallGetSupabase ==
  /\ lib.calls < MaxCalls
  /\ lib' = getSupabase(lib)
  /\ UNCHANGED <<dashboardVars, adminVars, chartVars>>

\* the environment of the process is set up or changed between two calls
SetEnv(url, key) ==
  /\ lib' = [lib EXCEPT !.url = url, !.key = key]
  /\ UNCHANGED <<dashboardVars, adminVars, chartVars>>

(* ------------------ the chart of the detail view ---------------------- *)
\* LineHistoryModal before its history has been fetched
ChartStart ==
  chart = [activeSources |-> <<>>, historyBySource |-> <<>>, chartData |-> <<>>]

\* the instants at which history rows were recorded, as ranks as for
\* updated_at: new Date(h.recorded_at).getTime() keeps their order
Stamps == {1, 2}

\* Rows of ud_line_history (LineHistory, src/unnamed/part_001) with the
\* fields chartData reads: a row with a line and both prices, a row with
\* none of them, a 'remove' row.
HistoryRows ==
  UNION { { [event_type |-> "update", recorded_at |-> t, stat_value |-> <<t>>,
             over_price |-> <<"-","1","1","0">>, under_price |-> <<"+","1","5","0">>],
            [event_type |-> "update", recorded_at |-> t, stat_value |-> <<>>,
             over_price |-> <<>>, under_price |-> <<>>],
            [event_type |-> "remove", recorded_at |-> t, stat_value |-> <<9>>,
             over_price |-> <<"-","1","1","0">>, under_price |-> <<>>] } :
          t \in Stamps }

\* the answers of the history query for one prop: at most MaxHist rows in
\* ascending order of recorded_at
Histories ==
  { h \in UNION { [1..n -> HistoryRows] : n \in 0..MaxHist } :
      \A i, j \in DOMAIN h : i < j => h[i].recorded_at <= h[j].recorded_at }

\* Object.keys(sources) of the row whose cell was clicked
ActiveSourceLists ==
  { <<"underdog">>, <<"underdog", "kalshi">>, <<"kalshi", "underdog">> }

Digits == <<"0","1","2","3","4","5","6","7","8","9">>

IsDigit(c) == \E d \in DOMAIN Digits : Digits[d] = c

\* the longest prefix of s made of digits
RECURSIVE DigitPrefix(_)
DigitPrefix(s) ==
  IF s = <<>> \/ ~IsDigit(Head(s)) THEN <<>>
  ELSE <<Head(s)>> \o DigitPrefix(Tail(s))

RECURSIVE DigitsValue(_)
DigitsValue(s) ==
  IF s = <<>> THEN 0
  ELSE 10 * DigitsValue(SubSeq(s, 1, Len(s) - 1))
         + (CHOOSE d \in DOMAIN Digits : Digits[d] = s[Len(s)]) - 1

\* the result of parseInt when no number is read
NaN == <<"NaN">>

\* parseInt(s): leading white space, a sign, the digits that follow; a
\* number is a sequence of length 1 as for the nullable numbers
parseInt(s) ==
  LET t    == trimStart(s)
      sign == t # <<>> /\ Head(t) \in {"+", "-"}
      body == DigitPrefix(IF sign THEN Tail(t) ELSE t)
  IN  IF body = <<>> THEN NaN
      ELSE IF sign /\ Head(t) = "-" THEN <<0 - DigitsValue(body)>>
      ELSE <<DigitsValue(body)>>

\* h.over_price ? parseInt(h.over_price) : null
PriceOf(price) == IF price = <<>> THEN <<>> ELSE parseInt(price)

\* historyBySource[src] || []
HistoryOf(history, src) ==
  IF src \in DOMAIN history THEN history[src] ELSE <<>>

\* the events pushed for one source: every row but the 'remove' rows
EventsOf(src, hist) ==
  LET kept == SelectSeq(hist, LAMBDA h : h.event_type # "remove")
  IN  [i \in DOMAIN kept |->
         [ts |-> kept[i].recorded_at, source |-> src, line |-> kept[i].stat_value,
          over |-> PriceOf(kept[i].over_price),
          under |-> PriceOf(kept[i].under_price)]]

\* the loop over activeSources that collects the events
RECURSIVE CollectEvents(_, _)
CollectEvents(activeSources, history) ==
  IF activeSources = <<>> THEN <<>>
  ELSE LET src == activeSources[Len(activeSources)]
       IN  CollectEvents(SubSeq(activeSources, 1, Len(activeSources) - 1), history)
             \o EventsOf(src, HistoryOf(history, src))

\* events.sort((a, b) => a.ts - b.ts), a stable sort
RECURSIVE InsertEvent(_, _)
InsertEvent(sorted, ev) ==
  IF sorted = <<>> THEN <<ev>>
  ELSE IF ev.ts - Head(sorted).ts < 0 THEN <<ev>> \o sorted
  ELSE <<Head(sorted)>> \o InsertEvent(Tail(sorted), ev)

RECURSIVE SortEvents(_)
SortEvents(events) ==
  IF events = <<>> THEN <<>>
  ELSE InsertEvent(SortEvents(SubSeq(events, 1, Len(events) - 1)),
                   events[Len(events)])

\* mutant: latest is emptied before each event
LatestAfter_OwnOnly(events, n) ==
  IF n = 0 THEN <<>>
  ELSE [s \in {events[n].source} |->
          [line |-> events[n].line, over |-> events[n].over,
           under |-> events[n].under]]

\* latest after the first n events of the loop
RECURSIVE LatestAfter(_, _)
LatestAfter(events, n) ==
  IF n = 0 THEN <<>>
  ELSE LET prev == LatestAfter(events, n - 1)
           ev   == events[n]
       IN  [s \in DOMAIN prev \cup {ev.source} |->
              IF s = ev.source
                THEN [line |-> ev.line, over |-> ev.over, under |-> ev.under]
                ELSE prev[s]]

\* the point pushed for the n-th event: values maps a source src to the
\* point's `${src}_line`, `${src}_over` and `${src}_under`.  The label time,
\* formatted from ts for the axis, is left out.
PointAt(events, n, activeSources) ==
  LET latest == LatestAfter(events, n)
  IN  [timestamp |-> events[n].ts,
       values |-> [s \in { activeSources[i] : i \in DOMAIN activeSources }
                            \cap DOMAIN latest |-> latest[s]]]

\* the value of chartData in a render
chartData(activeSources, history) ==
  LET events == SortEvents(CollectEvents(activeSources, history))
  IN  [n \in DOMAIN events |-> PointAt(events, n, activeSources)]

\* the modal, opened for a row with these sources, is rendered after
\* setHistoryBySource(results)
ChartRendered(activeSources, results) ==
  /\ chart.activeSources = <<>>
  /\ chart' = [activeSources |-> activeSources, historyBySource |-> results,
               chartData |-> chartData(activeSources, results)]
  /\ UNCHANGED <<dashboardVars, adminVars, libVars>>

(* ----------------------------- state ---------------------------------- *)
\* lastUpdate is "null" or "date": the Date read by new Date() is only ever
\* displayed, so the instants are not told apart.
NoSources == [s \in {} |-> TRUE]

\* historyBySource is the number of the effect run whose results it holds,
\* NoHistory for the initial {}
NoHistory == 0

Init ==
  /\ props = <<>>
  /\ propsRef = <<>>
  /\ sourcesEnabled = NoSources
  /\ flashKeys = {}
  /\ timers = <<>>
  /\ loading = TRUE
  /\ lastUpdate = "null"
  /\ fetchState = "pending"
  /\ early = 0
  /\ mounted = TRUE
  /\ channel = "open"
  /\ realtimeStatus = "connecting"
  /\ sport = ALL
  /\ statFilter = ALL
  /\ search = <<>>
  /\ sortField = "updated_at"
  /\ sortAsc = FALSE
  /\ memoMerged = <<>>
  /\ selectedProp = <<>>
  /\ historyBySource = NoHistory
  /\ modalLoading = TRUE
  /\ inflight = {}
  /\ runs = 0
  /\ AdminStart
  /\ LibStart
  /\ ChartStart

(* ----------------------------- rendering ------------------------------ *)
\* a render in which props or sourcesEnabled is a new object: the merge pass
\* runs again, and then the filtered useMemo, which sorts
Rendered(newProps, newEnabled) ==
  MemoAfter(Merge(newProps, newEnabled),
            sport, statFilter, search, sortField, sortAsc)

\* The fetch effect of an open LineHistoryModal depends on onClose, which the
\* Dashboard creates anew in every render: each render of the Dashboard runs
\* the effect again and starts another fetch.  At most MaxRuns runs are
\* followed.
ModalRerender ==
  IF selectedProp = <<>> THEN UNCHANGED modalVars
  ELSE /\ runs < MaxRuns
       /\ runs' = runs + 1
       /\ inflight' = inflight \cup {[run |-> runs + 1, live |-> TRUE]}
       /\ modalLoading' = TRUE
       /\ UNCHANGED <<selectedProp, historyBySource>>

(* ---------------------------- fetchProps ------------------------------ *)
\* srcs[p.source || 'underdog'] = true for every fetched record
FoundSources(list) ==
  [s \in { Src(list[i]) : i \in DOMAIN list } |-> TRUE]

\* The table is not rendered while loading, so no detail view is open when
\* the fetch returns.  After an unmount the continuation still runs: the
\* assignment to the ref takes place, the state setters do nothing.
FetchOk(data) ==
  /\ UNCHANGED offDashboard
  /\ fetchState = "pending"
  /\ fetchState' = "done"
  /\ early' = 0
  /\ propsRef' = NewMap(data)
  /\ IF mounted
       THEN /\ props' = data
            /\ sourcesEnabled' = FoundSources(data)
            /\ lastUpdate' = "date"
            /\ loading' = FALSE
            /\ memoMerged' = Rendered(data, FoundSources(data))
       ELSE UNCHANGED <<props, sourcesEnabled, lastUpdate, loading, memoMerged>>
  /\ UNCHANGED <<flashKeys, timers, lifeVars, modalVars>>
  /\ UNCHANGED <<sport, statFilter, search, sortField, sortAsc>>

\* mutant: the error path returns without setLoading(false)
FetchError_KeepsLoading ==
  /\ UNCHANGED offDashboard
  /\ fetchState = "pending"
  /\ fetchState' = "done"
  /\ early' = 0
  /\ UNCHANGED <<props, propsRef, sourcesEnabled, flashKeys, timers, lastUpdate, loading>>
  /\ UNCHANGED <<lifeVars, viewVars, modalVars>>

FetchError ==
  /\ UNCHANGED offDashboard
  /\ fetchState = "pending"
  /\ fetchState' = "done"
  /\ early' = 0
  /\ loading' = IF mounted THEN FALSE ELSE loading
  /\ UNCHANGED <<props, propsRef, sourcesEnabled, flashKeys, timers, lastUpdate>>
  /\ UNCHANGED <<lifeVars, viewVars, modalVars>>

(* ------------------- the postgres_changes handler --------------------- *)
\* mutant: the status of the new record is not looked at
IsRemoval_DeleteOnly(payload) == payload.eventType = "DELETE"

IsRemoval(payload) ==
  \/ payload.eventType = "DELETE"
  \/ (payload.new # <<>> /\ payload.new[1].status = "removed")

\* the notifications that take the first branch of the handler
RemovalPayloads == { pl \in Payloads : IsRemoval(pl) }

\* oldProp?.id || newProp?.id || ''
RemovalId(payload) ==
  IF payload.old.id # "" THEN payload.old.id
  ELSE IF payload.new # <<>> THEN payload.new[1].id
  ELSE ""

\* prev[src] ? prev : { ...prev, [src]: true }
EnableSource(prev, src) ==
  IF IsEnabled(prev, src) THEN prev
  ELSE [s \in DOMAIN prev \cup {src} |-> IF s = src THEN TRUE ELSE prev[s]]

\* early counts the notifications handled while the fetch is in flight; at
\* most MaxEarly of them come before the fetch returns.
Early ==
  /\ fetchState = "pending" => early < MaxEarly
  /\ early' = IF fetchState = "pending" THEN early + 1 ELSE early

\* mutant: the branches are tested in the other order
ApplyToStore_SetFirst(m, payload) ==
  IF payload.eventType \in {"INSERT", "UPDATE"}
    THEN MapSet(m, payload.new[1].id, payload.new[1])
  ELSE IF IsRemoval(payload) THEN MapDelete(m, RemovalId(payload))
  ELSE m

\* the handler's effect on propsRef.current
ApplyToStore(m, payload) ==
  IF IsRemoval(payload) THEN MapDelete(m, RemovalId(payload))
  ELSE IF payload.eventType \in {"INSERT", "UPDATE"}
    THEN MapSet(m, payload.new[1].id, payload.new[1])
  ELSE m

\* the end of the handler: setProps(Array.from(...)), setLastUpdate(new Date())
\* and the render they cause
PublishStore(enabled) ==
  /\ props' = MapValues(propsRef')
  /\ lastUpdate' = "date"
  /\ memoMerged' = Rendered(props', enabled)
  /\ ModalRerender

\* first branch: DELETE, or a new record with status 'removed'.  The handler
\* runs as long as the channel has not been removed; on an unmounted component
\* only the ref changes.
NotifyRemoval(payload) ==
  /\ UNCHANGED offDashboard
  /\ channel = "open"
  /\ IsRemoval(payload)
  /\ Early
  /\ propsRef' = ApplyToStore(propsRef, payload)
  /\ IF mounted THEN PublishStore(sourcesEnabled)
     ELSE UNCHANGED <<props, lastUpdate, memoMerged, modalVars>>
  /\ UNCHANGED <<sourcesEnabled, flashKeys, timers, loading, fetchState, lifeVars>>
  /\ UNCHANGED <<sport, statFilter, search, sortField, sortAsc>>

\* mutant: the highlight is keyed by the fields as they are spelled
FlashKey_RawName(newProp) == makeMergeKey_RawName(newProp)

\* const mergeKey = makeMergeKey(newProp)
FlashKey(newProp) == KeyOf(newProp)

\* second branch: INSERT or UPDATE of a record that is not removed, handled
\* while fewer than cap timers are pending
UpsertHandled(payload, cap) ==
  /\ UNCHANGED offDashboard
  /\ channel = "open"
  /\ ~IsRemoval(payload)
  /\ payload.eventType \in {"INSERT", "UPDATE"}
  /\ Len(timers) < cap
  /\ Early
  /\ LET newProp  == payload.new[1]
         mergeKey == FlashKey(newProp)
     IN  /\ propsRef' = ApplyToStore(propsRef, payload)
         /\ timers' = Append(timers, mergeKey)
         /\ IF mounted
              THEN /\ flashKeys' = flashKeys \cup {mergeKey}
                   /\ sourcesEnabled' = EnableSource(sourcesEnabled, Src(newProp))
                   /\ PublishStore(sourcesEnabled')
              ELSE UNCHANGED <<flashKeys, sourcesEnabled, props, lastUpdate,
                               memoMerged, modalVars>>
  /\ UNCHANGED <<loading, fetchState, lifeVars>>
  /\ UNCHANGED <<sport, statFilter, search, sortField, sortAsc>>

\* the number of pending timers is capped at MaxTimers
NotifyUpsert(payload) == UpsertHandled(payload, MaxTimers)

Notify(payload) == NotifyRemoval(payload) \/ NotifyUpsert(payload)

\* mutant: the callback leaves the key in the set
ClearFlash_Keeps(prev, mergeKey) == prev

\* const next = new Set(prev); next.delete(mergeKey); return next
ClearFlash(prev, mergeKey) == prev \ {mergeKey}

\* the callback of setTimeout(..., 2000); equal delays expire in the order
\* in which the timers were set.  The timers are not cleared on unmount.
TimerFire ==
  /\ UNCHANGED offDashboard
  /\ timers # <<>>
  /\ timers' = Tail(timers)
  /\ IF mounted
       THEN /\ flashKeys' = ClearFlash(flashKeys, Head(timers))
            /\ ModalRerender
       ELSE UNCHANGED <<flashKeys, modalVars>>
  /\ UNCHANGED <<props, propsRef, sourcesEnabled, loading, lastUpdate, fetchState, early>>
  /\ UNCHANGED <<lifeVars, viewVars>>

(* ----------------------- the subscription's life ---------------------- *)
\* the statuses a channel reports to the callback of subscribe
Statuses == {"SUBSCRIBED", "TIMED_OUT", "CLOSED", "CHANNEL_ERROR"}

\* mutant: an error is shown as a connection in progress
OnStatus_ErrorConnecting(prev, status) ==
  IF status = "SUBSCRIBED" THEN "connected"
  ELSE IF status = "CHANNEL_ERROR" THEN "connecting"
  ELSE prev

\* mutant: a status other than the two named shows a connection in progress
OnStatus_ElseConnecting(prev, status) ==
  IF status = "SUBSCRIBED" THEN "connected"
  ELSE IF status = "CHANNEL_ERROR" THEN "error"
  ELSE "connecting"

\* the callback of subscribe, as a function of the indicator
OnStatus(prev, status) ==
  IF status = "SUBSCRIBED" THEN "connected"
  ELSE IF status = "CHANNEL_ERROR" THEN "error"
  ELSE prev

SubscribeStatus(status) ==
  /\ UNCHANGED offDashboard
  /\ channel = "open"
  /\ realtimeStatus' =
       IF mounted THEN OnStatus(realtimeStatus, status) ELSE realtimeStatus
  /\ IF realtimeStatus' # realtimeStatus THEN ModalRerender ELSE UNCHANGED modalVars
  /\ UNCHANGED <<dataVars, mounted, channel, viewVars>>

\* mutant: the cleanup leaves the channel subscribed
removeChannel_Kept(ch) == ch

\* supabase.removeChannel(channel)
removeChannel(ch) == "removed"

\* the fetches of a component that went away
Orphaned(fetches) == { [f EXCEPT !.live = FALSE] : f \in fetches }

\* The component unmounts: the cleanup of the subscription effect runs, and
\* an open detail view unmounts with its parent.  The state is kept as it was
\* at that moment; no setter changes it from then on.
Unmount ==
  /\ UNCHANGED offDashboard
  /\ mounted
  /\ mounted' = FALSE
  /\ channel' = removeChannel(channel)
  /\ inflight' = Orphaned(inflight)
  /\ UNCHANGED <<dataVars, realtimeStatus, viewVars>>
  /\ UNCHANGED <<selectedProp, historyBySource, modalLoading, runs>>

(* --------------------------- source toggles --------------------------- *)
\* sourceCounts[src]: the number of records of props counted for src
sourceCounts(src) ==
  Cardinality({ i \in DOMAIN props : Src(props[i]) = src })

\* the buttons rendered: SOURCES_ORDER.filter(s => sourceCounts[s])
ToggleButtons ==
  { SOURCES_ORDER[i] : i \in { j \in DOMAIN SOURCES_ORDER :
                                 sourceCounts(SOURCES_ORDER[j]) > 0 } }

\* { ...prev, [src]: !prev[src] }
Toggled(prev, src) ==
  [s \in DOMAIN prev \cup {src} |->
     IF s = src THEN ~IsEnabled(prev, src) ELSE prev[s]]

\* the page can be clicked: it is mounted and not covered by the detail view
Clickable == mounted /\ selectedProp = <<>>

toggleSource(src) ==
  /\ UNCHANGED offDashboard
  /\ Clickable
  /\ src \in ToggleButtons
  /\ sourcesEnabled' = Toggled(sourcesEnabled, src)
  /\ memoMerged' = Rendered(props, sourcesEnabled')
  /\ UNCHANGED <<props, propsRef, flashKeys, timers, loading, lastUpdate, fetchState, early>>
  /\ UNCHANGED <<lifeVars, modalVars, sport, statFilter, search, sortField, sortAsc>>

(* --------------------------- view settings ---------------------------- *)
\* the filtered useMemo runs again with the merged array it was given before
Resorted(sp, st, text, field, asc) ==
  memoMerged' = MemoAfter(memoMerged, sp, st, text, field, asc)

\* onClick of a sport tab: setSport(s); setStatFilter('ALL')
clickSportTab(s) ==
  /\ UNCHANGED offDashboard
  /\ Clickable
  /\ s \in sportTabs
  /\ sport' = s
  /\ statFilter' = ALL
  /\ Resorted(s, ALL, search, sortField, sortAsc)
  /\ UNCHANGED <<search, sortField, sortAsc, dataVars, lifeVars, modalVars>>

\* onChange of the stat select, rendered when statTypes is not empty
setStatFilter(st) ==
  /\ UNCHANGED offDashboard
  /\ Clickable
  /\ statTypes # {}
  /\ st \in statTypes \cup {ALL}
  /\ statFilter' = st
  /\ Resorted(sport, st, search, sortField, sortAsc)
  /\ UNCHANGED <<sport, search, sortField, sortAsc, dataVars, lifeVars, modalVars>>

\* the texts typed into the search box
SearchTexts == { <<>>, <<"L","A","L">>, <<"j","a","m","e","s">>, <<"D","e","n">> }

setSearch(text) ==
  /\ UNCHANGED offDashboard
  /\ Clickable
  /\ search' = text
  /\ Resorted(sport, statFilter, text, sortField, sortAsc)
  /\ UNCHANGED <<sport, statFilter, sortField, sortAsc, dataVars, lifeVars, modalVars>>

\* mutant: a newly selected field keeps the direction of the one before
handleSort_KeepsDirection(field) ==
  /\ UNCHANGED offDashboard
  /\ Clickable
  /\ ~loading
  /\ IF sortField = field
       THEN sortAsc' = ~sortAsc /\ sortField' = sortField
       ELSE sortField' = field /\ sortAsc' = sortAsc
  /\ Resorted(sport, statFilter, search, sortField', sortAsc')
  /\ UNCHANGED <<sport, statFilter, search, dataVars, lifeVars, modalVars>>

\* the headers are part of the table, which is rendered once loading is over
handleSort(field) ==
  /\ UNCHANGED offDashboard
  /\ Clickable
  /\ ~loading
  /\ IF sortField = field
       THEN sortAsc' = ~sortAsc /\ sortField' = sortField
       ELSE sortField' = field /\ sortAsc' = FALSE
  /\ Resorted(sport, statFilter, search, sortField', sortAsc')
  /\ UNCHANGED <<sport, statFilter, search, dataVars, lifeVars, modalVars>>

(* --------------------------- the detail view -------------------------- *)
\* the records behind the cells of the table
CellProps ==
  UNION { { filtered[i].sources[j].prop : j \in DOMAIN filtered[i].sources } :
            i \in DOMAIN filtered }

\* onClick of a cell: setSelectedProp(d.prop).  LineHistoryModal mounts with
\* historyBySource {} and loading true, and its effect starts the first fetch.
OpenModal(p) ==
  /\ UNCHANGED offDashboard
  /\ Clickable
  /\ ~loading
  /\ p \in CellProps
  /\ runs < MaxRuns
  /\ selectedProp' = <<p>>
  /\ historyBySource' = NoHistory
  /\ modalLoading' = TRUE
  /\ runs' = runs + 1
  /\ inflight' = inflight \cup {[run |-> runs + 1, live |-> TRUE]}
  /\ UNCHANGED <<dataVars, lifeVars, viewVars>>

\* onClose (backdrop, close button, Escape): setSelectedProp(null).  The
\* modal unmounts and its state is gone; the next one starts afresh.
CloseModal ==
  /\ UNCHANGED offDashboard
  /\ mounted
  /\ selectedProp # <<>>
  /\ selectedProp' = <<>>
  /\ historyBySource' = NoHistory
  /\ modalLoading' = TRUE
  /\ inflight' = Orphaned(inflight)
  /\ UNCHANGED <<runs, dataVars, lifeVars, viewVars>>

\* fetchHistory resumes after Promise.all: setHistoryBySource(results);
\* setLoading(false).  The setters of an unmounted modal do nothing.
HistoryFetched(f) ==
  /\ UNCHANGED offDashboard
  /\ f \in inflight
  /\ inflight' = inflight \ {f}
  /\ IF f.live
       THEN historyBySource' = f.run /\ modalLoading' = FALSE
       ELSE UNCHANGED <<historyBySource, modalLoading>>
  /\ UNCHANGED <<selectedProp, runs, dataVars, lifeVars, viewVars>>

(* ------------------------- the specifications ------------------------- *)
\* the mounted dashboard from its first render: fetch, change feed, timers
\* and source toggles.  No handler reads the connection indicator, which is
\* left out here, as are the view settings and the detail view.
Next ==
  \/ \E fetched \in FetchResults : FetchOk(fetched)
  \/ FetchError
  \/ \E payload \in Payloads : Notify(payload)
  \/ TimerFire
  \/ \E src \in ToggleButtons : toggleSource(src)

Spec == Init /\ [][Next]_vars

\* a timer that was set expires: its callback is run in the end
FairSpec == Spec /\ WF_vars(TimerFire)

\* the same with the statuses the subscription reports and the unmount,
\* after which the effects still pending run on an unmounted component
NextLife ==
  \/ Next
  \/ \E status \in Statuses : SubscribeStatus(status)
  \/ Unmount

SpecLife == Init /\ [][NextLife]_vars

\* the state in which the bulk fetch, having met no notification, has
\* returned the list fetched
Fetched(fetched) ==
  /\ props = fetched
  /\ propsRef = NewMap(fetched)
  /\ sourcesEnabled = FoundSources(fetched)
  /\ flashKeys = {}
  /\ timers = <<>>
  /\ loading = FALSE
  /\ lastUpdate = "date"
  /\ fetchState = "done"
  /\ early = 0
  /\ mounted = TRUE
  /\ channel = "open"
  /\ realtimeStatus = "connected"
  /\ sport = ALL
  /\ statFilter = ALL
  /\ search = <<>>
  /\ sortField = "updated_at"
  /\ sortAsc = FALSE
  /\ memoMerged = MemoAfter(Merge(fetched, FoundSources(fetched)),
                            ALL, ALL, <<>>, "updated_at", FALSE)
  /\ selectedProp = <<>>
  /\ historyBySource = NoHistory
  /\ modalLoading = TRUE
  /\ inflight = {}
  /\ runs = 0
  /\ AdminStart
  /\ LibStart
  /\ ChartStart

\* the view settings at work on the rows of a fetched list
InitView == \E fetched \in FetchResults : Fetched(fetched)

NextView ==
  \/ \E s \in sportTabs : clickSportTab(s)
  \/ \E st \in statTypes \cup {ALL} : setStatFilter(st)
  \/ \E text \in SearchTexts : setSearch(text)
  \/ \E field \in SortFields : handleSort(field)

SpecView == InitView /\ [][NextView]_vars

\* the detail view at work on the rows of a fetched list, while removals
\* keep the Dashboard rendering
InitModal == \E fetched \in FetchResults : Fetched(fetched)

NextModal ==
  \/ \E p \in CellProps : OpenModal(p)
  \/ CloseModal
  \/ \E f \in inflight : HistoryFetched(f)
  \/ \E payload \in RemovalPayloads : NotifyRemoval(payload)

SpecModal == InitModal /\ [][NextModal]_vars

\* Results of the bulk fetch over the records of LineProps; their timestamps
\* are equal, so that the store may return them in any order.
LineResults ==
  { list \in UNION { [1..n -> LineProps] : n \in 0..Cardinality(LineProps) } :
      \A i, j \in DOMAIN list : i # j => list[i].id # list[j].id }

\* the view settings at work on rows that differ in line and price
InitLine == \E fetched \in LineResults : Fetched(fetched)

\* every row has the same stat type and no team or game: the sport tabs and
\* the sort headers are the settings that tell these rows apart
NextLine ==
  \/ \E s \in sportTabs : clickSportTab(s)
  \/ \E field \in SortFields : handleSort(field)

SpecLine == InitLine /\ [][NextLine]_vars

\* the mapping administration screen from its mount
NextAdmin ==
  \/ \E sportError, statError \in BOOLEAN : LoadDone(sportError, statError)
  \/ \E key \in SourceSports : toggleUnmapped(key)
  \/ \E key \in SourceStats : toggleUnmappedStat(key)
  \/ \E text \in CanonicalTexts : setNewCanonical(text)
  \/ \E text \in CanonicalTexts : setNewStatCanonical(text)
  \/ createSportMapping
  \/ \E m \in admin.sportMappings : addToExistingGroup(m.canonical_name)
  \/ \E m \in admin.sportMappings : deleteSportMapping(m.id)
  \/ createStatMapping
  \/ \E m \in admin.statMappings : addStatToExistingGroup(m.canonical_name)
  \/ \E m \in admin.statMappings : deleteStatMapping(m.id)
  \/ \E r \in admin.requests : \E error \in BOOLEAN : Returned(r, error)
  \/ DismissAlert

SpecAdmin == Init /\ [][NextAdmin]_vars

\* the change feed inserting the records of KeyProps after an empty fetch
KeyPayloads ==
  { [eventType |-> "INSERT", new |-> <<p>>, old |-> [id |-> ""]] : p \in KeyProps }

InitKey == Fetched(<<>>)

NextKey ==
  \/ \E payload \in KeyPayloads : NotifyUpsert(payload)
  \/ TimerFire

SpecKey == InitKey /\ [][NextKey]_vars

\* the change feed rewriting the player name of one record after an empty
\* fetch
NextName ==
  \/ \E p \in NameProps :
       NotifyUpsert([eventType |-> "UPDATE", new |-> <<p>>, old |-> [id |-> p.id]])
  \/ TimerFire

SpecName == InitKey /\ [][NextName]_vars

\* the change feed and the timers after an empty fetch, with up to
\* MaxPending timers pending: notifications that follow each other within
\* the delay of a timer
NextFlash ==
  \/ \E payload \in Payloads : UpsertHandled(payload, MaxPending)
  \/ TimerFire

SpecFlash == InitKey /\ [][NextFlash]_vars

\* the dashboard of Spec with the sport tabs
NextSport ==
  \/ Next
  \/ \E s \in sportTabs : clickSportTab(s)

SpecSport == Init /\ [][NextSport]_vars

\* the page from its first render with the bulk fetch, the source toggles,
\* the sport tabs and the sort headers
NextSort ==
  \/ \E fetched \in FetchResults : FetchOk(fetched)
  \/ FetchError
  \/ \E src \in ToggleButtons : toggleSource(src)
  \/ \E s \in sportTabs : clickSportTab(s)
  \/ \E field \in SortFields : handleSort(field)

SpecSort == Init /\ [][NextSort]_vars

\* the callers of getSupabase and the environment of the process
NextLib ==
  \/ CallGetSupabase
  \/ \E url, key \in EnvValues : SetEnv(url, key)

SpecLib == Init /\ [][NextLib]_vars

\* the chart of the detail view for the answers of the history queries
NextChart ==
  /\ chart.activeSources = <<>>
  /\ \E activeSources \in ActiveSourceLists :
       \E results \in [{ activeSources[i] : i \in DOMAIN activeSources } -> Histories] :
         ChartRendered(activeSources, results)

SpecChart == Init /\ [][NextChart]_vars

(* ===================== properties of the merge ======================= *)
StoreProps == { propsRef[i].v : i \in DOMAIN propsRef }

RowKeys(rows) == { rows[i].key : i \in DOMAIN rows }

Max(S) == CHOOSE x \in S : \A y \in S : y <= x

\* C1: the merged output has a row with key K iff the Snapshot Store holds a
\* record of an enabled source (default 'underdog') whose merge key is K, and
\* no two rows share a key.
C1_RowIffEnabledRecord ==
  /\ \A p \in StoreProps :
       IsEnabled(sourcesEnabled, Src(p)) => mergeKeyOf[p] \in RowKeys(merged)
  /\ \A k \in RowKeys(merged) :
       \E p \in StoreProps :
         IsEnabled(sourcesEnabled, Src(p)) /\ mergeKeyOf[p] = k
  /\ \A i, j \in DOMAIN merged : i # j => merged[i].key # merged[j].key

\* reached after a fetch, notifications and a toggle: the store holds records
\* of two keys, one key has only records of a disabled source and no row
C1_Witness ==
  /\ fetchState = "done"
  /\ Len(merged) = 1
  /\ Cardinality({ mergeKeyOf[p] : p \in StoreProps }) = 2
  /\ \E p \in StoreProps :
       "kalshi" \in DOMAIN sourcesEnabled /\ ~sourcesEnabled["kalshi"]
       /\ Src(p) = "kalshi" /\ mergeKeyOf[p] \notin RowKeys(merged)

\* the state of the fold before the n-th record of props is met
MergeBefore(n) == Merge(SubSeq(props, 1, n - 1), sourcesEnabled)

\* C2: a record folded into a row that already has a slot for its source
\* replaces the slot only if its updated_at is strictly greater; otherwise the
\* slot is unchanged (on a tie the first record met keeps it).  A slot for S
\* only holds a record whose source is S.
C2_SlotReplacedOnlyIfNewer ==
  /\ \A n \in DOMAIN props :
       LET p      == props[n]
           before == MergeBefore(n)
           after  == MergeStep(before, p, sourcesEnabled)
           i      == IndexOfRow(before, mergeKeyOf[p])
           j      == IndexOfSource(before[i].sources, Src(p))
       IN  (IsEnabled(sourcesEnabled, Src(p)) /\ i # 0 /\ j # 0) =>
             LET old == before[i].sources[j]
                 new == after[i].sources[j]
             IN  /\ new.source = old.source
                 /\ p.updated_at > old.updated_at =>
                      /\ new.prop = p
                      /\ new.updated_at = p.updated_at
                      /\ new.line = p.stat_value
                      /\ new.over = p.over_price
                      /\ new.under = p.under_price
                 /\ p.updated_at <= old.updated_at => new = old
  /\ \A i \in DOMAIN merged : \A j \in DOMAIN merged[i].sources :
       Src(merged[i].sources[j].prop) = merged[i].sources[j].source

\* a pass in which a record ties with the slot that another record of its
\* source took first, the slot holding a record without a source tag
C2_Witness ==
  /\ \E n \in DOMAIN props :
       LET p == props[n]
           i == IndexOfRow(MergeBefore(n), mergeKeyOf[p])
           j == IndexOfSource(MergeBefore(n)[i].sources, Src(p))
       IN  /\ IsEnabled(sourcesEnabled, Src(p)) /\ i # 0 /\ j # 0
           /\ p.updated_at = MergeBefore(n)[i].sources[j].updated_at
           /\ p # MergeBefore(n)[i].sources[j].prop
  /\ \E i \in DOMAIN merged : \E j \in DOMAIN merged[i].sources :
       merged[i].sources[j].prop.source = ""

\* the enabled records of props that map to key k
Contributors(k) ==
  { p \in { props[n] : n \in DOMAIN props } :
      IsEnabled(sourcesEnabled, Src(p)) /\ mergeKeyOf[p] = k }

\* C3: latestUpdate of every row is the maximum updated_at over the row's
\* slots, which is the maximum over the enabled records mapping to its key.
C3_LatestUpdateIsMax ==
  \A i \in DOMAIN merged :
    LET row == merged[i]
    IN  /\ row.sources # <<>>
        /\ row.latestUpdate =
             Max({ row.sources[j].updated_at : j \in DOMAIN row.sources })
        /\ row.latestUpdate =
             Max({ p.updated_at : p \in Contributors(row.key) })

\* a row whose latestUpdate was raised above the timestamp of the record
\* that created it
C3_Witness ==
  \E i \in DOMAIN merged :
    /\ Len(merged[i].sources) = 2
    /\ merged[i].sources[1].updated_at < merged[i].latestUpdate
    /\ merged[i].sources[2].updated_at = merged[i].latestUpdate

normNameOf == [p \in AllProps |-> normName(p.player_name)]

normStatOf == [p \in AllProps |-> normStat(p.stat_type)]

SameEntity(p, q) ==
  /\ normNameOf[p] = normNameOf[q]
  /\ normStatOf[p] = normStatOf[q]
  /\ p.sport_id = q.sport_id

\* C4: records of different enabled sources with equal normalized name,
\* normalized stat type and sport id give exactly one row, with one slot for
\* each of the sources and latestUpdate the greatest timestamp of the enabled
\* records of that entity, in whatever order the store holds them.
C4_SameEntityOneRow ==
  \A p, q \in StoreProps :
    ( /\ Src(p) # Src(q)
      /\ IsEnabled(sourcesEnabled, Src(p))
      /\ IsEnabled(sourcesEnabled, Src(q))
      /\ SameEntity(p, q) ) =>
    LET rows == { i \in DOMAIN merged :
                    \E x \in StoreProps :
                      SameEntity(x, p) /\ merged[i].key = mergeKeyOf[x] }
    IN  /\ Cardinality(rows) = 1
        /\ \A i \in rows :
             /\ \A s \in {Src(p), Src(q)} :
                  Cardinality({ j \in DOMAIN merged[i].sources :
                                  merged[i].sources[j].source = s }) = 1
             /\ merged[i].latestUpdate =
                  Max({ x.updated_at :
                          x \in { y \in StoreProps :
                                    /\ SameEntity(y, p)
                                    /\ IsEnabled(sourcesEnabled, Src(y)) } })

\* the kalshi record, spelled in lower case, was inserted before the underdog
\* record and is the older of the two
C4_Witness ==
  /\ Len(propsRef) = 2
  /\ propsRef[1].v.source = "kalshi" /\ propsRef[2].v.source = "underdog"
  /\ propsRef[1].v.player_name # propsRef[2].v.player_name
  /\ propsRef[1].v.updated_at < propsRef[2].v.updated_at
  /\ Len(merged) = 1
  /\ Len(merged[1].sources) = 2

\* C5: once toggleSource has disabled source S, the merge output has no slot
\* for S, no row to which only records of S map, and is the output the
\* records of the other sources give alone.
C5_DisabledSourceExcluded ==
  \A S \in DOMAIN sourcesEnabled :
    ~sourcesEnabled[S] =>
      /\ \A i \in DOMAIN merged : \A j \in DOMAIN merged[i].sources :
           /\ merged[i].sources[j].source # S
           /\ Src(merged[i].sources[j].prop) # S
      /\ \A i \in DOMAIN merged :
           \E n \in DOMAIN props :
             Src(props[n]) # S /\ mergeKeyOf[props[n]] = merged[i].key
      /\ merged = Merge(SelectSeq(props, LAMBDA x : Src(x) # S), sourcesEnabled)

\* underdog was switched off while the store holds an underdog record that
\* is the newest of a row shared with kalshi and an underdog record alone on
\* its key
C5_Witness ==
  /\ "underdog" \in DOMAIN sourcesEnabled /\ ~sourcesEnabled["underdog"]
  /\ Len(merged) = 1
  /\ Len(merged[1].sources) = 1
  /\ \E p, q, r \in StoreProps :
       /\ Src(p) = "underdog" /\ mergeKeyOf[p] = merged[1].key
       /\ p.updated_at > merged[1].latestUpdate
       /\ Src(q) = "underdog" /\ mergeKeyOf[q] # merged[1].key
       /\ Src(r) = "kalshi"

DeletePayloads == { pl \in Payloads : pl.eventType = "DELETE" }

RemovedPayloads ==
  { pl \in Payloads : pl.eventType # "DELETE" /\ pl.new[1].status = "removed" }

\* C6: after a DELETE notification for id X no slot of the merge output
\* holds record X; a row to which other enabled records map keeps only their
\* slots, a row to which no other enabled record maps is gone.
C6_DeleteRemovesSlot ==
  [][ \A pl \in DeletePayloads :
        Notify(pl) =>
          LET X == pl.old.id
              rows == merged
              next == mergedNext
              others(k) == { p \in StoreProps :
                               /\ p.id # X
                               /\ IsEnabled(sourcesEnabled, Src(p))
                               /\ mergeKeyOf[p] = k }
          IN  /\ \A i \in DOMAIN next : \A j \in DOMAIN next[i].sources :
                   next[i].sources[j].prop.id # X
              /\ \A i \in DOMAIN rows :
                   IF others(rows[i].key) # {}
                     THEN \E i2 \in DOMAIN next :
                            /\ next[i2].key = rows[i].key
                            /\ \A j \in DOMAIN next[i2].sources :
                                 next[i2].sources[j].prop \in others(rows[i].key)
                     ELSE rows[i].key \notin RowKeys(next) ]_vars

\* the underdog record that enabled its source has been deleted again: the
\* row keeps the kalshi slot only
C6_Witness ==
  /\ Len(propsRef) = 1 /\ propsRef[1].k = "b1"
  /\ IsEnabled(sourcesEnabled, "underdog")
  /\ Len(merged) = 1
  /\ Len(merged[1].sources) = 1
  /\ merged[1].sources[1].source = "kalshi"

\* C7: an INSERT or UPDATE whose new record has status 'removed' changes the
\* store as a DELETE for that id does: no record with the id is held
\* afterwards, nothing is upserted, no highlight is raised and the source
\* enablement is untouched.
C7_RemovedStatusIsDelete ==
  [][ \A pl \in RemovedPayloads :
        Notify(pl) =>
          LET id == pl.new[1].id
              del == [eventType |-> "DELETE", new |-> <<>>, old |-> [id |-> id]]
          IN  /\ propsRef' = ApplyToStore(propsRef, del)
              /\ \A i \in DOMAIN propsRef' :
                   propsRef'[i].k # id /\ propsRef'[i].v.id # id
              /\ Len(propsRef') <= Len(propsRef)
              /\ flashKeys' = flashKeys
              /\ timers' = timers
              /\ sourcesEnabled' = sourcesEnabled ]_vars

\* after an empty fetch, the only record notified (b1) was taken out of the
\* store again while its highlight was still on
C7_Witness ==
  /\ fetchState = "done"
  /\ propsRef = <<>>
  /\ DOMAIN sourcesEnabled = {"kalshi"}
  /\ Len(timers) = 1
  /\ \E p \in PropsOfB1 : flashKeys = {mergeKeyOf[p]}

UpsertPayloads == { pl \in Payloads : ~IsRemoval(pl) }

\* C8: applying the same INSERT or UPDATE notification a second time leaves
\* the store (ids, records, iteration order) as the first application left
\* it.
C8_UpsertIdempotent ==
  \A pl \in UpsertPayloads :
    LET once == ApplyToStore(propsRef, pl)
    IN  /\ ApplyToStore(once, pl) = once
        /\ Cardinality({ i \in DOMAIN once : once[i].k = pl.new[1].id }) = 1

\* the last notification was an upsert of a1, whose entry comes first in the
\* store, before the entry of c1
C8_Witness ==
  /\ Len(propsRef) = 2
  /\ propsRef[1].v.updated_at = 2
  /\ propsRef[2].v.updated_at = 1
  /\ propsRef[1].k = "a1" /\ propsRef[2].k = "c1"
  /\ mergeKeyOf[propsRef[1].v] # mergeKeyOf[propsRef[2].v]
  /\ timers = <<mergeKeyOf[propsRef[1].v]>>

\* C9: a DELETE or removed-status notification for an id the store does not
\* hold leaves the store, the props array, the merge output, the highlight
\* set and the source enablement as they were.
C9_RemovalOfAbsentIsNoOp ==
  [][ \A pl \in RemovalPayloads :
        ( /\ Notify(pl)
          /\ \A i \in DOMAIN propsRef : propsRef[i].k # RemovalId(pl) ) =>
          /\ propsRef' = propsRef
          /\ props' = props
          /\ mergedNext = merged
          /\ flashKeys' = flashKeys
          /\ sourcesEnabled' = sourcesEnabled ]_vars

\* a removal was the first notification, the store being empty: only
\* lastUpdate moved
C9_Witness ==
  /\ fetchState = "pending"
  /\ propsRef = <<>>
  /\ sourcesEnabled = NoSources
  /\ flashKeys = {}
  /\ lastUpdate = "date"

(* -------------------- iteration-order independence -------------------- *)
\* the rows of a merge output, without their order and the order of slots
RowSet(rows) ==
  { [key |-> rows[i].key, player_name |-> rows[i].player_name,
     sport_id |-> rows[i].sport_id, stat_type |-> rows[i].stat_type,
     game_display |-> rows[i].game_display, team_abbr |-> rows[i].team_abbr,
     slots |-> { rows[i].sources[j] : j \in DOMAIN rows[i].sources },
     latestUpdate |-> rows[i].latestUpdate] : i \in DOMAIN rows }

DistinctTimes(list) ==
  \A i, j \in DOMAIN list : i # j => list[i].updated_at # list[j].updated_at

\* C10: for records with pairwise distinct timestamps the merge output is
\* the same for every order in which the records are iterated.
C10_OrderIndependent ==
  DistinctTimes(props) =>
    \A f \in Permutations(DOMAIN props) :
      RowSet(Merge([i \in DOMAIN props |-> props[f[i]]], sourcesEnabled))
        = RowSet(merged)

(* ---------------------- freshest record's display -------------------- *)
\* the most recently updated of the enabled records of props that map to k
Freshest(k) ==
  { p \in Contributors(k) :
      \A q \in Contributors(k) : q.updated_at <= p.updated_at }

\* C11: the player name, stat type, team and game of every merged row are
\* those of a contributing record with the greatest updated_at; a team or
\* game that this record does not have may come from an earlier one.
C11_DisplayFollowsFreshest ==
  \A i \in DOMAIN merged :
    \E p \in Freshest(merged[i].key) :
      /\ merged[i].player_name = OrElse(p.player_name, EmDash)
      /\ merged[i].stat_type = p.stat_type
      /\ p.team_abbr # <<>> => merged[i].team_abbr = p.team_abbr
      /\ p.game_display # <<>> => merged[i].game_display = p.game_display

(* ------------------------- the key's injectivity ---------------------- *)
\* C12: two records have the same merge key if and only if their normalized
\* player names, their normalized stat types and their sport ids are equal,
\* also when a field holds the separator '||'.
C12_KeyInjective ==
  \A p, q \in StoreProps :
    makeMergeKey(p) = makeMergeKey(q)
      <=> /\ normName(p.player_name) = normName(q.player_name)
          /\ normStat(p.stat_type) = normStat(q.stat_type)
          /\ p.sport_id = q.sport_id

(* ----------------------------- highlights ----------------------------- *)
\* C13: an INSERT or UPDATE notification that upserts a record adds the merge
\* key of the new record, and nothing else, to the highlight set; a DELETE or
\* removed-status notification adds nothing; the set only ever holds merge
\* keys of records the change feed can upsert.
C13_HighlightIsMergeKey ==
  [][ /\ \A pl \in UpsertPayloads :
           Notify(pl) => flashKeys' = flashKeys \cup {mergeKeyOf[pl.new[1]]}
      /\ \A pl \in RemovalPayloads :
           Notify(pl) => flashKeys' = flashKeys
      /\ flashKeys' \subseteq { mergeKeyOf[p] : p \in ActiveProps } ]_vars

\* the highlight of the upserted record a1 is on, under a key that is not
\* the spelling of its name
C13_Witness ==
  /\ timers # <<>>
  /\ \E p \in StoreProps :
       /\ p.id = "a1"
       /\ flashKeys = {mergeKeyOf[p]}
       /\ Head(timers) = mergeKeyOf[p]
       /\ mergeKeyOf[p] # makeMergeKey_RawName(p)

\* the keys a highlight can have
MergeKeys == { mergeKeyOf[p] : p \in ActiveProps }

\* C14: a key in the highlight set always has a pending timer that removes
\* it, so that the set is empty when no timer is pending, and every key in
\* the set leaves it again.
C14_HighlightCleared ==
  /\ [](\A k \in flashKeys : \E i \in DOMAIN timers : timers[i] = k)
  /\ \A k \in MergeKeys : (k \in flashKeys) ~> (k \notin flashKeys)

\* the highlight of a record notified before the fetch returned has been
\* cleared by its timer
C14_Witness ==
  /\ fetchState = "pending"
  /\ propsRef # <<>>
  /\ flashKeys = {}
  /\ timers = <<>>

(* ------------------------- subscription errors ------------------------ *)
\* C15: when the subscription reports CHANNEL_ERROR the indicator becomes
\* 'error' and the Snapshot Store, the props array, the source enablement and
\* the highlight set stay as they were.
C15_ChannelErrorOnlyIndicator ==
  [][ SubscribeStatus("CHANNEL_ERROR") =>
        /\ realtimeStatus' = "error"
        /\ propsRef' = propsRef
        /\ props' = props
        /\ sourcesEnabled' = sourcesEnabled
        /\ flashKeys' = flashKeys ]_vars

\* the error was reported while the store held records and a highlight was on
C15_Witness ==
  /\ realtimeStatus = "error"
  /\ mounted
  /\ Len(propsRef) = 2
  /\ props = MapValues(propsRef)
  /\ flashKeys # {}

(* --------------------------- the bulk fetch --------------------------- *)
\* C16: when the bulk fetch returns an error, loading becomes false and the
\* Snapshot Store, the props array, the source enablement and lastUpdate keep
\* their values; loading is false once the fetch has returned, with or
\* without an error.
C16_FetchErrorOnlyLoading ==
  [][ /\ FetchError =>
           /\ loading' = FALSE
           /\ propsRef' = propsRef
           /\ props' = props
           /\ sourcesEnabled' = sourcesEnabled
           /\ lastUpdate' = lastUpdate
      /\ fetchState' = "done" => loading' = FALSE ]_vars

\* the fetch has failed before any notification came: nothing was ever
\* installed
C16_Witness ==
  /\ fetchState = "done"
  /\ loading = FALSE
  /\ lastUpdate = "null"
  /\ props = <<>>
  /\ propsRef = <<>>

(* ------------------------ detail-history fetches ---------------------- *)
\* C17: only the most recently started fetch of an open detail view writes
\* historyBySource and loading, in whatever order the fetches complete: once
\* no fetch is in flight, an open detail view holds the results of its last
\* effect run and is not loading.
C17_OnlyLatestFetchApplies ==
  (selectedProp # <<>> /\ inflight = {}) =>
    /\ historyBySource = runs
    /\ modalLoading = FALSE

(* ------------------------------ unmount ------------------------------- *)
\* C18: once the dashboard has unmounted, the channel is removed, no step is
\* the handling of a change notification, the state of the dashboard stays as
\* it was, and the Snapshot Store changes no more, unless by the bulk fetch
\* that was still in flight.
C18_NoNotificationAfterUnmount ==
  [][ ~mounted =>
        /\ channel = "removed"
        /\ \A pl \in Payloads : ~Notify(pl)
        /\ props' = props
        /\ sourcesEnabled' = sourcesEnabled
        /\ flashKeys' = flashKeys
        /\ lastUpdate' = lastUpdate
        /\ realtimeStatus' = realtimeStatus
        /\ propsRef' # propsRef => (fetchState = "pending" /\ fetchState' = "done")
    ]_vars

\* unmounted after the fetch, with records in the store and a highlight
\* whose timer has since expired
C18_Witness ==
  /\ ~mounted
  /\ channel = "removed"
  /\ fetchState = "done"
  /\ Len(propsRef) = 2
  /\ flashKeys # {}
  /\ timers = <<>>

(* ------------------------------ filtering ----------------------------- *)
RowsOf(rows) == { rows[i] : i \in DOMAIN rows }

\* q occurs in s
IsSubstring(q, s) ==
  \E i \in 1..(Len(s) + 1) : \E j \in (i - 1)..Len(s) : SubSeq(s, i, j) = q

\* the rows a single filter keeps
KeptBySport ==
  { r \in RowsOf(memoMerged) : sport = ALL \/ r.sport_id = sport }

KeptByStat ==
  { r \in RowsOf(memoMerged) : statFilter = ALL \/ r.stat_type = statFilter }

KeptBySearch ==
  { r \in RowsOf(memoMerged) :
      \/ search = <<>>
      \/ IsSubstring(toLowerCase(search), toLowerCase(r.player_name))
      \/ IsSubstring(toLowerCase(search), toLowerCase(r.game_display))
      \/ IsSubstring(toLowerCase(search), toLowerCase(r.team_abbr)) }

\* C19: the rows of the view are the rows that the sport filter, the stat
\* filter and the search each keep when it is the only filter; a filter set
\* to 'ALL' and an empty search text keep every row; the search keeps a row
\* when the lower-cased text is a substring of its lower-cased player name,
\* game or team.
C19_FilterConjunctive ==
  /\ RowsOf(filtered) = KeptBySport \cap KeptByStat \cap KeptBySearch
  /\ RowsOf(FilteredOf(memoMerged, sport, ALL, <<>>, sortField, sortAsc))
       = KeptBySport
  /\ RowsOf(FilteredOf(memoMerged, ALL, statFilter, <<>>, sortField, sortAsc))
       = KeptByStat
  /\ RowsOf(FilteredOf(memoMerged, ALL, ALL, search, sortField, sortAsc))
       = KeptBySearch

\* the three filters are set; the search alone keeps a row, the sport and the
\* stat filter keep another, and the view is empty
C19_Witness ==
  /\ sport # ALL /\ statFilter # ALL /\ search # <<>>
  /\ Len(memoMerged) = 2
  /\ KeptBySport = KeptByStat
  /\ Cardinality(KeptBySport) = 1
  /\ Cardinality(KeptBySearch) = 1
  /\ filtered = <<>>

(* ------------------------------- sorting ------------------------------ *)
\* C20: the view is the stable sort, by the sort field and direction, of the
\* filtered output of the merge pass: rows that tie on the field stand in the
\* order in which the merge pass produced them, whatever was selected before.
C20_StableSortOfMergeOutput ==
  filtered = FilteredOf(merged, sport, statFilter, search, sortField, sortAsc)

\* the row's line is null or 0, below 0, above 0
ZeroLine(row) == row.sources[1].line \in {<<>>, <<0>>}

NegLine(row) == row.sources[1].line # <<>> /\ row.sources[1].line[1] < 0

PosLine(row) == row.sources[1].line # <<>> /\ row.sources[1].line[1] > 0

DigitChars == <<"0","1","2","3","4","5","6","7","8","9">>

IsDigits(s) ==
  s # <<>> /\ \A i \in DOMAIN s : \E d \in DOMAIN DigitChars : DigitChars[d] = s[i]

RECURSIVE Magnitude(_)
Magnitude(s) ==
  IF s = <<>> THEN 0
  ELSE 10 * Magnitude(SubSeq(s, 1, Len(s) - 1))
         + (CHOOSE d \in DOMAIN DigitChars : DigitChars[d] = s[Len(s)]) - 1

\* a price parsed as an integer; an absent or unparsable price is 0
ParsePrice(s) ==
  IF s = <<>> THEN 0
  ELSE IF Head(s) = "+" /\ IsDigits(Tail(s)) THEN Magnitude(Tail(s))
  ELSE IF Head(s) = "-" /\ IsDigits(Tail(s)) THEN 0 - Magnitude(Tail(s))
  ELSE IF IsDigits(s) THEN Magnitude(s)
  ELSE 0

\* C22: over_price is one of the sort fields, and the view sorted by
\* over_price, ascending, has its rows in the order of their over prices (of
\* the first slot) parsed as integers, an absent price being 0: a row with
\* '+150' stands after a row with '-110'.
C22_SortByOverPrice ==
  /\ "over_price" \in SortFields
  /\ LET view == FilteredOf(memoMerged, sport, statFilter, search, "over_price", TRUE)
     IN  \A i, j \in DOMAIN view :
           i < j => ParsePrice(view[i].sources[1].over)
                      <= ParsePrice(view[j].sources[1].over)

(* ------------------- mutations of the mapping tables ------------------ *)
\* C23: whenever a mutating handler of the mapping screen (createSportMapping,
\* addToExistingGroup, deleteSportMapping, createStatMapping,
\* addStatToExistingGroup, deleteStatMapping) resumes with the store's answer,
\* be it an acceptance or an error, it calls loadData.
C23_ReloadAfterEveryMutation ==
  [][ \A r \in admin.requests : \A error \in BOOLEAN :
        Returned(r, error) =>
          (admin'.loads = admin.loads + 1 /\ admin'.adminLoading) ]_vars

\* C24: whenever a mutating handler resumes with an error of the store, for
\* an upsert or for a delete, an alert is shown, and the selection and the
\* canonical-name inputs are left as they were.
C24_FailedMutationAlerts ==
  [][ \A r \in admin.requests :
        Returned(r, TRUE) =>
          /\ admin'.alerted
          /\ admin'.selectedUnmapped = admin.selectedUnmapped
          /\ admin'.newCanonical = admin.newCanonical
          /\ admin'.selectedUnmappedStats = admin.selectedUnmappedStats
          /\ admin'.newStatCanonical = admin.newStatCanonical ]_vars

(* ------------------------- duplicate records -------------------------- *)
\* list with a second occurrence of its n-th record put before position k
WithDuplicate(list, n, k) ==
  SubSeq(list, 1, k - 1) \o <<list[n]>> \o SubSeq(list, k, Len(list))

\* C25: a list in which a record occurs a second time, anywhere after its
\* first occurrence, merges to the rows, slots, display attributes and
\* latestUpdate values (and the order of rows and slots) to which the list
\* without the second occurrence merges.
C25_DuplicateRecordNoEffect ==
  \A n \in DOMAIN props : \A k \in (n + 1)..(Len(props) + 1) :
    Merge(WithDuplicate(props, n, k), sourcesEnabled) = merged

\* three records in the array, two rows, one of them with the slots of two
\* sources, the newer of which is met first: its duplicate is met again
\* after the older record of the other source
C25_Witness ==
  /\ Len(props) = 3
  /\ Len(merged) = 2
  /\ \E i \in DOMAIN merged :
       /\ Len(merged[i].sources) = 2
       /\ merged[i].sources[1].prop = props[1]
       /\ merged[i].sources[2].prop = props[3]
       /\ props[1].updated_at > props[3].updated_at
  /\ Merge(WithDuplicate(props, 1, 4), sourcesEnabled) = merged

(* ------------------------ the normalized name ------------------------- *)
\* s is lower-case, has no whitespace at either end, none of the characters
\* '.', '-' and ''', and no two whitespace characters in a row
IsNormalName(s) ==
  /\ \A i \in DOMAIN s : \A k \in DOMAIN UpperChars : s[i] # UpperChars[k]
  /\ s # <<>> => (s[1] \notin WhiteSpace /\ s[Len(s)] \notin WhiteSpace)
  /\ \A i \in DOMAIN s : s[i] \notin {".", "-", "'"}
  /\ \A i \in 1..(Len(s) - 1) : ~(s[i] \in WhiteSpace /\ s[i + 1] \in WhiteSpace)

\* C26: the normalized player name of every record is lower-case, without
\* whitespace at its ends, without '.', '-' and ''' and without a run of
\* whitespace; a null or empty name gives the empty string; normalizing the
\* normalized name gives it back.
C26_NormNameIsNormalForm ==
  \A p \in StoreProps :
    LET out == normName(p.player_name)
    IN  /\ IsNormalName(out)
        /\ p.player_name = <<>> => out = <<>>
        /\ normName(out) = out

(* ------------------------ the array and the store --------------------- *)
\* C27: between handlers the props array that the merge pass reads holds the
\* records of the Snapshot Store, all of them and no others, in the store's
\* iteration order.
C27_PropsIsStoreSnapshot ==
  /\ props = MapValues(propsRef)
  /\ merged = Merge(MapValues(propsRef), sourcesEnabled)

\* the fetch installed two records and a notification added a third, newer
\* one at the end
C27_Witness ==
  /\ fetchState = "done"
  /\ Len(propsRef) = 3
  /\ timers = <<mergeKeyOf[propsRef[3].v]>>
  /\ propsRef[3].v.updated_at > propsRef[1].v.updated_at
  /\ props[3] = propsRef[3].v

(* ------------------ notifications ahead of the fetch ------------------ *)
\* C28: a record that a notification put into the Snapshot Store before the
\* bulk fetch returned is still held, with the notified value, once the fetch
\* result is installed.  (The store starts empty, so what it holds when the
\* fetch returns is what the earlier notifications left there.)
C28_EarlyNotificationsKept ==
  [][ \A fetched \in FetchResults :
        FetchOk(fetched) =>
          \A i \in DOMAIN propsRef :
            \E j \in DOMAIN propsRef' : propsRef'[j] = propsRef[i] ]_vars

(* ----------------------- disabled sources stay off -------------------- *)
\* C29: a source that the user has switched off is still switched off after
\* any INSERT or UPDATE notification, of that source or another, and the next
\* merge output has no slot for it; a notification enables only a source that
\* has no entry in the enablement yet.
C29_DisabledStaysDisabled ==
  [][ \A pl \in UpsertPayloads :
        Notify(pl) =>
          \A s \in DOMAIN sourcesEnabled :
            ~sourcesEnabled[s] =>
              /\ s \in DOMAIN sourcesEnabled' /\ ~sourcesEnabled'[s]
              /\ \A i \in DOMAIN mergedNext : \A j \in DOMAIN mergedNext[i].sources :
                   mergedNext[i].sources[j].source # s ]_vars

(* ----------------------- out-of-order notifications ------------------- *)
\* C30: when a notification is applied, the record that the Snapshot Store
\* holds for an id afterwards has an updated_at not below that of the record
\* it held for the id before: an UPDATE with an older timestamp does not
\* replace a newer record.
C30_TimestampNeverDecreases ==
  [][ \A pl \in Payloads :
        Notify(pl) =>
          \A i \in DOMAIN propsRef : \A j \in DOMAIN propsRef' :
            propsRef'[j].k = propsRef[i].k =>
              propsRef'[j].v.updated_at >= propsRef[i].v.updated_at ]_vars


(* ------------------------ the slot of a source ------------------------ *)
\* the positions in props of the enabled records of source src that map to
\* key k
Candidates(k, src) ==
  { n \in DOMAIN props :
      /\ Src(props[n]) = src
      /\ IsEnabled(sourcesEnabled, src)
      /\ mergeKeyOf[props[n]] = k }

\* those of them with the greatest updated_at
Greatest(k, src) ==
  { n \in Candidates(k, src) :
      \A m \in Candidates(k, src) : props[m].updated_at <= props[n].updated_at }

\* C31: in the merge output the slot of a row for source S holds the record
\* with the greatest updated_at among the records of props that have source S
\* (default 'underdog'), are enabled and map to the row's key, and on equal
\* greatest timestamps the one earliest in props; every enabled record of
\* props has a row for its key with a slot for its source whose timestamp is
\* at least the record's.
C31_SlotHoldsGreatest ==
  /\ \A i \in DOMAIN merged : \A j \in DOMAIN merged[i].sources :
       LET slot == merged[i].sources[j]
           best == Greatest(merged[i].key, slot.source)
       IN  /\ best # {}
           /\ slot.prop = props[CHOOSE n \in best : \A m \in best : n <= m]
           /\ slot.updated_at = slot.prop.updated_at
           /\ slot.line = slot.prop.stat_value
           /\ slot.over = slot.prop.over_price
           /\ slot.under = slot.prop.under_price
  /\ \A n \in DOMAIN props :
       IsEnabled(sourcesEnabled, Src(props[n])) =>
         \E i \in DOMAIN merged : \E j \in DOMAIN merged[i].sources :
           /\ merged[i].key = mergeKeyOf[props[n]]
           /\ merged[i].sources[j].source = Src(props[n])
           /\ merged[i].sources[j].updated_at >= props[n].updated_at

\* two records compete for one slot and the one met second, being newer, has
\* taken it from the first
C31_Witness ==
  \E i \in DOMAIN merged : \E j \in DOMAIN merged[i].sources :
    LET slot == merged[i].sources[j]
        cand == Candidates(merged[i].key, slot.source)
    IN  /\ Cardinality(cand) = 2
        /\ \E n \in cand : \A m \in cand \ {n} :
             m < n /\ props[m].updated_at < props[n].updated_at /\ slot.prop = props[n]


(* -------------------- the merge output and the view ------------------- *)
\* C32: computing the view leaves the output of the merge pass as it was:
\* after the filter and sort steps have run, the array held by the merged
\* useMemo has the rows of the merge pass in the order in which the pass
\* produced them, with or without a sport, stat or search filter.
C32_ViewLeavesMergedAlone == memoMerged = merged


(* ------------------- the highlight and its timers --------------------- *)
\* C33: a key stays highlighted for the full delay after the latest INSERT or
\* UPDATE notification for it: as long as the timer set by a notification for
\* key K is pending, K is highlighted, also when an earlier timer for K
\* expires in between.
C33_HighlightLastsFullDelay ==
  mounted => \A i \in DOMAIN timers : timers[i] \in flashKeys


(* ----------------------- the keys of the store ------------------------ *)
\* C34: the Snapshot Store is keyed by record id: the key of every entry is
\* the id of the record it holds, no two entries hold records with the same
\* id, and no record held has status 'removed'.
C34_StoreKeyedById ==
  /\ \A i \in DOMAIN propsRef :
       /\ propsRef[i].k = propsRef[i].v.id
       /\ propsRef[i].v.status # "removed"
  /\ \A i, j \in DOMAIN propsRef :
       i # j => propsRef[i].v.id # propsRef[j].v.id

\* after the fetch a notification has written a record to the store: the
\* store holds two records, the first of them newer than the second, and the
\* timer of the notification is pending
C34_Witness ==
  /\ fetchState = "done"
  /\ Len(propsRef) = 2
  /\ timers # <<>>
  /\ propsRef[1].v.updated_at > propsRef[2].v.updated_at
  /\ props = MapValues(propsRef)


(* ------------------- the connection-state indicator ------------------- *)
\* C35: the indicator starts at 'connecting'; a report of SUBSCRIBED makes it
\* 'connected' (also after an error), a report of CHANNEL_ERROR makes it
\* 'error', a report of any other status leaves it as it is, nothing but a
\* report of one of these two statuses changes it, and once it has left
\* 'connecting' it does not return there.
C35_IndicatorFollowsStatus ==
  /\ realtimeStatus = "connecting"
  /\ [][ /\ SubscribeStatus("SUBSCRIBED") => realtimeStatus' = "connected"
         /\ SubscribeStatus("CHANNEL_ERROR") => realtimeStatus' = "error"
         /\ \A status \in Statuses \ {"SUBSCRIBED", "CHANNEL_ERROR"} :
              SubscribeStatus(status) => realtimeStatus' = realtimeStatus
         /\ realtimeStatus' # realtimeStatus =>
              \/ SubscribeStatus("SUBSCRIBED") /\ realtimeStatus' = "connected"
              \/ SubscribeStatus("CHANNEL_ERROR") /\ realtimeStatus' = "error"
         /\ realtimeStatus # "connecting" => realtimeStatus' # "connecting"
       ]_vars

\* the indicator shows a connection while the fetch is still in flight and a
\* notification has been handled
C35_Witness ==
  /\ realtimeStatus = "connected"
  /\ fetchState = "pending"
  /\ propsRef # <<>>
  /\ channel = "open"


(* --------------------------- the sport tabs --------------------------- *)
\* C36: the selected sport is one of the sport tabs on display: after any
\* notifications, source toggles and tab clicks the sport filter is 'ALL' or
\* a sport of the tab list.
C36_SportIsATab == sport = ALL \/ sport \in sportTabs


(* --------------------------- the sort headers ------------------------- *)
\* C37: the sort setting starts at (updated_at, descending); a click on the
\* header of the current sort field flips the direction and keeps the field,
\* a click on another header selects that field with the direction
\* descending, and nothing but a click on a header changes the field or the
\* direction.
C37_SortStateMachine ==
  /\ sortField = "updated_at" /\ sortAsc = FALSE
  /\ [][ /\ \A field \in SortFields :
              handleSort(field) =>
                IF field = sortField
                  THEN sortField' = sortField /\ sortAsc' = ~sortAsc
                  ELSE sortField' = field /\ sortAsc' = FALSE
         /\ <<sortField, sortAsc>>' # <<sortField, sortAsc>> =>
              \E field \in SortFields : handleSort(field)
       ]_vars

\* the line header clicked twice, after a click on a header that had turned
\* the direction: sorted by line, ascending, under a sport tab
C37_Witness ==
  /\ sortField = "line"
  /\ sortAsc = TRUE
  /\ sport # ALL
  /\ Len(memoMerged) = 2


(* --------------------------- the shared client ------------------------ *)
\* an environment variable is set and is not blank
IsSet(v) == v # Undefined /\ \E i \in DOMAIN v : v[i] \notin WhiteSpace

\* C38: getSupabase constructs the shared client at most once.  A call made
\* when the client exists returns that client and constructs nothing; a call
\* made when there is no client and the URL or the key is missing or blank
\* throws and caches nothing; a call made when there is no client and both
\* are set constructs the client, caches it and returns it; nothing but a
\* call changes the cached client.
C38_ClientConstructedOnce ==
  /\ [](lib.created <= 1)
  /\ [][ /\ CallGetSupabase =>
              /\ lib._supabase # 0 =>
                   /\ ~lib'.threw
                   /\ lib'.returned = lib._supabase
                   /\ lib'._supabase = lib._supabase
                   /\ lib'.created = lib.created
              /\ (lib._supabase = 0 /\ ~(IsSet(lib.url) /\ IsSet(lib.key))) =>
                   /\ lib'.threw
                   /\ lib'._supabase = 0
                   /\ lib'.created = lib.created
              /\ (lib._supabase = 0 /\ IsSet(lib.url) /\ IsSet(lib.key)) =>
                   /\ ~lib'.threw
                   /\ lib'.created = lib.created + 1
                   /\ lib'._supabase # 0
                   /\ lib'.returned = lib'._supabase
         /\ lib'._supabase # lib._supabase => CallGetSupabase
       ]_vars

\* a first call threw, a second constructed the client, and a third returned
\* it while the URL was not set any more
C38_Witness ==
  /\ lib.calls = 3
  /\ lib.created = 1
  /\ lib.returned = 1
  /\ ~lib.threw
  /\ lib.url = Undefined


(* ------------------------- the history chart -------------------------- *)
\* the history rows that are not 'remove' rows, each named by the position of
\* its source in activeSources and its position in the source's history
ChartRows ==
  { ij \in (DOMAIN chart.activeSources) \X (1..MaxHist) :
      LET hist == chart.historyBySource[chart.activeSources[ij[1]]]
      IN  ij[2] \in DOMAIN hist /\ hist[ij[2]].event_type # "remove" }

RowAt(ij) == chart.historyBySource[chart.activeSources[ij[1]]][ij[2]]

\* the place of a row among rows in the order of the chart: by event time,
\* rows of the same time in the order of the sources and of their histories
RankOf(rows, ij) ==
  1 + Cardinality({ o \in rows :
        \/ RowAt(o).recorded_at < RowAt(ij).recorded_at
        \/ /\ RowAt(o).recorded_at = RowAt(ij).recorded_at
           /\ (o[1] < ij[1] \/ (o[1] = ij[1] /\ o[2] < ij[2])) })

\* the number a price stands for
PriceValue(price) ==
  CASE price = <<>> -> <<>>
    [] price = <<"-","1","1","0">> -> <<0 - 110>>
    [] price = <<"+","1","5","0">> -> <<150>>

\* C39: the chart has one point for every history row that is not a 'remove'
\* row, in non-decreasing order of event time; a point carries for each
\* source the line, over and under of the latest such row of that source at
\* or before the point, and nothing for a source that has no such row yet.
C39_ChartCarriesForward ==
  LET points == chart.chartData
      rows   == ChartRows
      rank   == [ij \in rows |-> RankOf(rows, ij)]
  IN  /\ Len(points) = Cardinality(rows)
      /\ \A n, m \in DOMAIN points :
           n < m => points[n].timestamp <= points[m].timestamp
      /\ \A ij \in rows :
           points[rank[ij]].timestamp = RowAt(ij).recorded_at
      /\ \A n \in DOMAIN points : \A i \in DOMAIN chart.activeSources :
           LET src  == chart.activeSources[i]
               past == { ij \in rows : ij[1] = i /\ rank[ij] <= n }
           IN  IF past = {} THEN src \notin DOMAIN points[n].values
               ELSE LET last == CHOOSE ij \in past :
                                  \A o \in past : rank[o] <= rank[ij]
                    IN  /\ src \in DOMAIN points[n].values
                        /\ points[n].values[src].line = RowAt(last).stat_value
                        /\ points[n].values[src].over =
                             PriceValue(RowAt(last).over_price)
                        /\ points[n].values[src].under =
                             PriceValue(RowAt(last).under_price)

\* three points of two sources: the first has no value for underdog yet, the
\* last carries forward the value kalshi had at the first, and a 'remove' row
\* has no point
C39_Witness ==
  LET points == chart.chartData
  IN  /\ Len(points) = 3
      /\ DOMAIN points[1].values = {"kalshi"}
      /\ DOMAIN points[2].values = {"kalshi", "underdog"}
      /\ DOMAIN points[3].values = {"kalshi", "underdog"}
      /\ points[3].values["kalshi"] = points[1].values["kalshi"]
      /\ points[3].values["underdog"] # points[2].values["underdog"]
      /\ \E ij \in (DOMAIN chart.activeSources) \X (1..MaxHist) :
           ij \notin ChartRows
           /\ ij[2] \in DOMAIN chart.historyBySource[chart.activeSources[ij[1]]]

====
